---- MODULE Spec2Model ----
(***************************************************************************)
(* Model of slate::Matrix (src/slate_Matrix.hh): the tile registry tiles_, *)
(* the lifetime table lives_, the tile motion operations, tileTick and the *)
(* broadcast tileSend(i, j, range[, range2]) on the ranks of a p x q grid. *)
(*                                                                         *)
(* Every rank r runs one Matrix object: tiles_[r] and lives_[r] are its    *)
(* two Maps, modelled as partial functions (DOMAIN = the keys present).    *)
(* A Map's operator[] inserts a default (null) value for a missing key,    *)
(* which is how the code inserts a tile through the returned reference.   *)
(***************************************************************************)
EXTENDS Integers, Sequences, FiniteSets, TLC

\* ---- bounds ------------------------------------------------------------
p == 2                  \* process grid rows
q == 1                  \* process grid columns
MT == 2                 \* mt_: number of tile rows
NT == 1                 \* nt_: number of tile columns
num_devices_ == 2       \* devices per rank
MaxCalls == 3           \* calls of the Matrix API issued in one behaviour
MaxArrays == 1          \* distinct caller arrays handed to copyFrom

\* ---- the fields of the parent matrix ------------------------------------
it_ == 0
jt_ == 0
\* omp_get_initial_device(): the host's device number, the one after the
\* device numbers 0 .. num_devices_ - 1
host_num_ == num_devices_

Ranks == 0 .. (p * q - 1)
Devices == 0 .. (num_devices_ - 1)
Locs == Devices \cup {host_num_}
Rows == 0 .. (MT - 1)
Cols == 0 .. (NT - 1)
Targets == {"Host", "Devices"}

\* well-formed consumer ranges <<i1, i2, j1, j2>> inside the tile grid
Ranges == {rg \in Rows \X Rows \X Cols \X Cols : rg[1] <= rg[2] /\ rg[3] <= rg[4]}

VARIABLES
    tiles_,     \* tiles_[r]: the registry of rank r, <<I, J, loc>> -> Tile*
    lives_,     \* lives_[r]: the lifetime table of rank r, <<I, J>> -> life
    status,     \* status[r]: "ok", "crashed" (null dereference) or "blocked"
    calls,      \* number of API calls issued so far
    last,       \* history: the call that produced this state
    since       \* history: <<r, I, J>> -> [L, k], ticks since the broadcast

VARIABLES
    mats,       \* the Matrix objects of one process: a parent and its views
    heap,       \* address -> the Map a tiles_ or lives_ pointer refers to
    pc,         \* pc[r]: the position of rank r in gather()
    chan,       \* chan[r]: the messages rank r has sent and rank 0 not received
    snap,       \* history: snap[r][n], the registry of r when it began gather n
    tpc,        \* tpc[t]: the position of task t in its transport calls
    slate_mpi   \* the set of tasks inside "omp critical(slate_mpi)"

VARIABLES
    task,       \* task[t]: the call task t of one rank makes, and where it is
    store       \* store[r]: address -> the tile object rank r allocated there

VARIABLES
    prog,       \* prog[t]: the tileSend calls task t of every rank makes
    ctl,        \* ctl[r][t]: where task t of rank r is in its calls
    mpi,        \* the MPI library: its progress rule and its communicators
    lock        \* lock[r]: the tasks of rank r inside critical(slate_mpi)
VARIABLES
    eig         \* the call of heev under way: its arguments and every rank's position

\* the variables a call of the tile operations leaves alone
gvars == <<pc, chan, snap>>
tvars == <<tpc, slate_mpi>>
kvars == <<task, store, prog, ctl, mpi, lock, eig>>
others == <<mats, heap, gvars, tvars, kvars>>
vars == <<tiles_, lives_, status, calls, last, since, mats, heap, pc, chan,
          snap, tpc, slate_mpi, task, store, prog, ctl, mpi, lock, eig>>

\* ---- tiles and maps -----------------------------------------------------
nullptr == [null |-> TRUE]
Tile(d) == [data |-> d]

\* the elements of block (I, J) of caller array a
ArrayBlock(I, J, a) == <<I, J, a>>
\* contents of tile (I, J) on its owner after construction: copyTo() takes
\* block (I, J) of the constructor's array (array 0)
Content(I, J) == ArrayBlock(I, J, 0)
Arrays == 1 .. MaxArrays
\* contents of a newly allocated tile that nothing has written yet
Unwritten == <<>>

Put(m, k, v) == [x \in (DOMAIN m) \cup {k} |-> IF x = k THEN v ELSE m[x]]
Erase(m, k) == [x \in (DOMAIN m) \ {k} |-> m[x]]
\* Map::operator[]: the map after the lookup (a missing key gets a null)
Index(m, k) == IF k \in DOMAIN m THEN m ELSE Put(m, k, nullptr)

Key(i, j, loc) == <<it_ + i, jt_ + j, loc>>
LKey(i, j) == <<it_ + i, jt_ + j>>

\* ---- distribution -------------------------------------------------------
tileRankFunc(i, j) == (i % p) + (j % q) * p
tileRank(i, j) == tileRankFunc(it_ + i, jt_ + j)
tileIsLocal(r, i, j) == tileRank(i, j) = r

\* Tile::copyToDevice / Tile::copyToHost: a new tile with the same elements
copyToDevice(t) == Tile(t.data)
copyToHost(t) == Tile(t.data)

\* ---- construction -------------------------------------------------------
\* Matrix::Matrix -> random()/copyTo(): the local tiles of the lower triangle
\* (the loops run over i < mt_ and j <= i, with no test of j against nt_)
LocalLower(r) == {<<i, j>> \in Rows \X Rows : j <= i /\ tileIsLocal(r, i, j)}

InitTiles(r) ==
    [k \in {Key(c[1], c[2], host_num_) : c \in LocalLower(r)} |->
        Tile(Content(k[1], k[2]))]

\* history record of a call: its name and arguments, the registries and the
\* lifetime tables of all ranks before it, and (orig) the host tile a
\* move_to_host finds when it directly follows the copy_to_device of the
\* same tile and device that started from a host-only tile
Call(op, r, i, j, loc, rg, target, orig) ==
    [op |-> op, r |-> r, i |-> i, j |-> j, loc |-> loc, rg |-> rg,
     target |-> target, orig |-> orig, pre |-> tiles_, prel |-> lives_]

\* no task is inside the critical section named slate_mpi
NoTask == {}
\* no Matrix object under observation, no gather() under way, no task started
Idle ==
    /\ mats = <<>>
    /\ heap = <<>>
    /\ pc = [r \in Ranks |-> [ph |-> "idle", at |-> <<>>, n |-> 0]]
    /\ chan = [r \in Ranks |-> <<>>]
    /\ snap = [r \in Ranks |-> <<>>]
    /\ tpc = <<>>
    /\ slate_mpi = NoTask
    /\ task = <<>>
    /\ store = <<>>
    /\ prog = <<>>
    /\ ctl = <<>>
    /\ mpi = <<>>
    /\ lock = <<>>
    /\ eig = <<>>

Init ==
    /\ Idle
    /\ tiles_ = [r \in Ranks |-> InitTiles(r)]
    /\ lives_ = [r \in Ranks |-> <<>>]
    /\ status = [r \in Ranks |-> "ok"]
    /\ calls = 0
    /\ last = [op |-> "none", r |-> 0, i |-> 0, j |-> 0, loc |-> host_num_,
               rg |-> <<>>, target |-> "Host", orig |-> nullptr,
               pre |-> [r \in Ranks |-> InitTiles(r)],
               prel |-> [r \in Ranks |-> <<>>]]
    /\ since = <<>>

CanCall(r) == status[r] = "ok" /\ calls < MaxCalls

Forget(r, i, j) == Erase(since, <<r, it_ + i, jt_ + j>>)

\* a tile object (not a null pointer) is stored under key k
Resident(m, k) == k \in DOMAIN m /\ m[k] # nullptr

\* (I, J) has a host tile and no entry on any device
HostOnly(m, i, j) ==
    /\ Resident(m, Key(i, j, host_num_))
    /\ \A d \in Devices : Key(i, j, d) \notin DOMAIN m

\* ---- tile motion --------------------------------------------------------
\* mutant of CopyToDeviceMap: the "not on the device" test is dropped
CopyToDeviceMapUnguarded(m, i, j, dst_device) ==
    LET m1 == Index(m, Key(i, j, host_num_))
        src_tile == m1[Key(i, j, host_num_)]
    IN  IF src_tile = nullptr
        THEN [t |-> m1, ok |-> FALSE]
        ELSE [t |-> Put(m1, Key(i, j, dst_device), copyToDevice(src_tile)),
              ok |-> TRUE]

\* The registry after tileCopyToDevice, and whether the call returned.
CopyToDeviceMap(m, i, j, dst_device) ==
    IF Key(i, j, dst_device) \in DOMAIN m
    THEN [t |-> m, ok |-> TRUE]
    ELSE LET m1 == Index(m, Key(i, j, host_num_))
             src_tile == m1[Key(i, j, host_num_)]
         IN  IF src_tile = nullptr
             THEN [t |-> m1, ok |-> FALSE]
             ELSE [t |-> Put(m1, Key(i, j, dst_device), copyToDevice(src_tile)),
                   ok |-> TRUE]

tileCopyToDevice(r, i, j, dst_device) ==
    /\ CanCall(r)
    /\ LET res == CopyToDeviceMap(tiles_[r], i, j, dst_device)
       IN  /\ tiles_' = [tiles_ EXCEPT ![r] = res.t]
           /\ status' = [status EXCEPT ![r] = IF res.ok THEN "ok" ELSE "crashed"]
    /\ calls' = calls + 1
    /\ UNCHANGED others
    /\ last' = Call("copy_to_device", r, i, j, dst_device, <<>>, "Host", nullptr)
    /\ since' = IF CopyToDeviceMap(tiles_[r], i, j, dst_device).ok THEN since
                ELSE Forget(r, i, j)
    /\ UNCHANGED lives_

\* mutant of MoveToDeviceMap: the host copy is not deleted
MoveToDeviceMapKeepHost(m, i, j, dst_device) ==
    IF Key(i, j, dst_device) \in DOMAIN m
    THEN [t |-> m, ok |-> TRUE]
    ELSE LET m1 == Index(m, Key(i, j, host_num_))
             src_tile == m1[Key(i, j, host_num_)]
         IN  IF src_tile = nullptr
             THEN [t |-> m1, ok |-> FALSE]
             ELSE [t |-> Put(m1, Key(i, j, dst_device), copyToDevice(src_tile)),
                   ok |-> TRUE]

MoveToDeviceMap(m, i, j, dst_device) ==
    IF Key(i, j, dst_device) \in DOMAIN m
    THEN [t |-> m, ok |-> TRUE]
    ELSE LET m1 == Index(m, Key(i, j, host_num_))
             src_tile == m1[Key(i, j, host_num_)]
         IN  IF src_tile = nullptr
             THEN [t |-> m1, ok |-> FALSE]
             ELSE [t |-> Erase(Put(m1, Key(i, j, dst_device),
                                   copyToDevice(src_tile)),
                               Key(i, j, host_num_)),
                   ok |-> TRUE]

tileMoveToDevice(r, i, j, dst_device) ==
    /\ CanCall(r)
    /\ LET res == MoveToDeviceMap(tiles_[r], i, j, dst_device)
       IN  /\ tiles_' = [tiles_ EXCEPT ![r] = res.t]
           /\ status' = [status EXCEPT ![r] = IF res.ok THEN "ok" ELSE "crashed"]
    /\ calls' = calls + 1
    /\ UNCHANGED others
    /\ last' = Call("move_to_device", r, i, j, dst_device, <<>>, "Host", nullptr)
    /\ since' = Forget(r, i, j)
    /\ UNCHANGED lives_

\* mutant of MoveToHostMap: the "not on the host" test is dropped
MoveToHostMapUnguarded(m, i, j, src_device) ==
    LET m1 == Index(m, Key(i, j, src_device))
        src_tile == m1[Key(i, j, src_device)]
    IN  IF src_tile = nullptr
        THEN [t |-> m1, ok |-> FALSE]
        ELSE [t |-> Erase(Put(m1, Key(i, j, host_num_), copyToHost(src_tile)),
                          Key(i, j, src_device)),
              ok |-> TRUE]

MoveToHostMap(m, i, j, src_device) ==
    IF Key(i, j, host_num_) \in DOMAIN m
    THEN [t |-> m, ok |-> TRUE]
    ELSE LET m1 == Index(m, Key(i, j, src_device))
             src_tile == m1[Key(i, j, src_device)]
         IN  IF src_tile = nullptr
             THEN [t |-> m1, ok |-> FALSE]
             ELSE [t |-> Erase(Put(m1, Key(i, j, host_num_),
                                   copyToHost(src_tile)),
                               Key(i, j, src_device)),
                   ok |-> TRUE]

tileMoveToHost(r, i, j, src_device) ==
    /\ CanCall(r)
    /\ LET res == MoveToHostMap(tiles_[r], i, j, src_device)
       IN  /\ tiles_' = [tiles_ EXCEPT ![r] = res.t]
           /\ status' = [status EXCEPT ![r] = IF res.ok THEN "ok" ELSE "crashed"]
    /\ calls' = calls + 1
    /\ UNCHANGED others
    /\ last' = Call("move_to_host", r, i, j, src_device, <<>>, "Host",
                     IF /\ last.op = "copy_to_device" /\ last.r = r
                        /\ last.i = i /\ last.j = j /\ last.loc = src_device
                        /\ HostOnly(last.pre[r], i, j)
                     THEN last.pre[r][Key(i, j, host_num_)]
                     ELSE nullptr)
    /\ since' = Forget(r, i, j)
    /\ UNCHANGED lives_

EraseMap(m, i, j, device) ==
    IF Key(i, j, device) \in DOMAIN m THEN Erase(m, Key(i, j, device)) ELSE m

tileErase(r, i, j, device) ==
    /\ CanCall(r)
    /\ tiles_' = [tiles_ EXCEPT ![r] = EraseMap(tiles_[r], i, j, device)]
    /\ calls' = calls + 1
    /\ UNCHANGED others
    /\ last' = Call("erase", r, i, j, device, <<>>, "Host", nullptr)
    /\ since' = Forget(r, i, j)
    /\ UNCHANGED <<lives_, status>>

\* ---- copyFrom ----------------------------------------------------------
RECURSIVE CopyFromFrom(_, _, _, _, _)
\* the two loops of copyFrom on rank r, from tile (i, j) on: every local tile
\* of the lower triangle is looked up and overwritten with its block of a
CopyFromFrom(r, m, i, j, a) ==
    IF i >= MT THEN [t |-> m, ok |-> TRUE]
    ELSE IF j > i THEN CopyFromFrom(r, m, i + 1, 0, a)
    ELSE IF tileIsLocal(r, i, j)
    THEN LET m1 == Index(m, Key(i, j, host_num_))
         IN  IF m1[Key(i, j, host_num_)] = nullptr
             THEN [t |-> m1, ok |-> FALSE]
             ELSE CopyFromFrom(r, Put(m1, Key(i, j, host_num_),
                                      Tile(ArrayBlock(it_ + i, jt_ + j, a))),
                               i, j + 1, a)
    ELSE CopyFromFrom(r, m, i, j + 1, a)

copyFrom(r, a) ==
    /\ CanCall(r)
    /\ LET res == CopyFromFrom(r, tiles_[r], 0, 0, a)
       IN  /\ tiles_' = [tiles_ EXCEPT ![r] = res.t]
           /\ status' = [status EXCEPT ![r] = IF res.ok THEN "ok" ELSE "crashed"]
    /\ calls' = calls + 1
    /\ UNCHANGED others
    /\ last' = Call("copyFrom", r, 0, 0, host_num_, <<>>, "Host", nullptr)
    /\ UNCHANGED <<lives_, since>>

\* ---- lookup ------------------------------------------------------------
\* Matrix::operator()(i, j[, device]): returns (*tiles_)[key]; the reference
\* returned for a missing key is that of a freshly inserted null pointer.
tileGet(r, i, j, loc) ==
    /\ CanCall(r)
    /\ tiles_' = [tiles_ EXCEPT ![r] = Index(tiles_[r], Key(i, j, loc))]
    /\ calls' = calls + 1
    /\ UNCHANGED others
    /\ last' = Call("tile", r, i, j, loc, <<>>, "Host", nullptr)
    /\ since' = IF Key(i, j, loc) \in DOMAIN tiles_[r] THEN since
                ELSE Forget(r, i, j)
    /\ UNCHANGED <<lives_, status>>

\* ---- lifetime -----------------------------------------------------------
RECURSIVE EraseDevices(_, _, _, _)
\* the loop of tileTick over the devices, from device on
EraseDevices(m, i, j, device) ==
    IF device >= num_devices_ THEN m
    ELSE EraseDevices(EraseMap(m, i, j, device), i, j, device + 1)

\* mutant of TickMaps: the loop over the devices is missing
TickMapsHostOnly(r, m, lv, i, j) ==
    IF ~ tileIsLocal(r, i, j)
    THEN LET lv1 == IF LKey(i, j) \in DOMAIN lv THEN lv ELSE Put(lv, LKey(i, j), 0)
             life == lv1[LKey(i, j)] - 1
         IN  IF life = 0
             THEN [t |-> EraseMap(m, i, j, host_num_), l |-> Erase(lv1, LKey(i, j))]
             ELSE [t |-> m, l |-> Put(lv1, LKey(i, j), life)]
    ELSE [t |-> m, l |-> lv]

\* mutant of TickMaps: the tileIsLocal test is missing
TickMapsAnyTile(r, m, lv, i, j) ==
    LET lv1 == IF LKey(i, j) \in DOMAIN lv THEN lv ELSE Put(lv, LKey(i, j), 0)
        life == lv1[LKey(i, j)] - 1
    IN  IF life = 0
        THEN [t |-> EraseDevices(EraseMap(m, i, j, host_num_), i, j, 0),
              l |-> Erase(lv1, LKey(i, j))]
        ELSE [t |-> m, l |-> Put(lv1, LKey(i, j), life)]

\* the registry and the lifetime table after tileTick on rank r
TickMaps(r, m, lv, i, j) ==
    IF ~ tileIsLocal(r, i, j)
    THEN LET lv1 == IF LKey(i, j) \in DOMAIN lv THEN lv ELSE Put(lv, LKey(i, j), 0)
             life == lv1[LKey(i, j)] - 1
         IN  IF life = 0
             THEN [t |-> EraseDevices(EraseMap(m, i, j, host_num_), i, j, 0),
                   l |-> Erase(lv1, LKey(i, j))]
             ELSE [t |-> m, l |-> Put(lv1, LKey(i, j), life)]
    ELSE [t |-> m, l |-> lv]

tileTick(r, i, j) ==
    /\ CanCall(r)
    /\ LET res == TickMaps(r, tiles_[r], lives_[r], i, j)
       IN  /\ tiles_' = [tiles_ EXCEPT ![r] = res.t]
           /\ lives_' = [lives_ EXCEPT ![r] = res.l]
    /\ calls' = calls + 1
    /\ UNCHANGED others
    /\ last' = Call("tick", r, i, j, host_num_, <<>>, "Host", nullptr)
    /\ since' = IF <<r, it_ + i, jt_ + j>> \in DOMAIN since
                THEN [since EXCEPT ![<<r, it_ + i, jt_ + j>>].k = @ + 1]
                ELSE since
    /\ UNCHANGED status

\* ---- broadcast ----------------------------------------------------------
RECURSIVE FindRanksFrom(_, _, _, _)
\* the two loops of tileSendFindRanks, from cell (a, b) on
FindRanksFrom(a, b, range, bcast_set) ==
    IF a > range[2] THEN bcast_set
    ELSE IF b > range[4] THEN FindRanksFrom(a + 1, range[3], range, bcast_set)
    ELSE FindRanksFrom(a, b + 1, range, bcast_set \cup {tileRank(a, b)})

tileSendFindRanks(range, bcast_set) ==
    FindRanksFrom(range[1], range[3], range, bcast_set)

RECURSIVE FindLifeFrom(_, _, _, _)
\* the two loops of tileSendFindLife on rank r, from cell (a, b) on
FindLifeFrom(r, a, b, range) ==
    IF a > range[2] THEN 0
    ELSE IF b > range[4] THEN FindLifeFrom(r, a + 1, range[3], range)
    ELSE (IF tileIsLocal(r, a, b) THEN 1 ELSE 0) + FindLifeFrom(r, a, b + 1, range)

\* mutant of tileSendFindLife: every cell of the range is counted
tileSendFindLifeAllCells(r, range) ==
    (range[2] - range[1] + 1) * (range[4] - range[3] + 1)

tileSendFindLife(r, range) == FindLifeFrom(r, range[1], range[3], range)

\* mutant of CopyToDevices: only device 0 gets a copy
CopyToDevicesFirstOnly(m, i, j, device) ==
    IF num_devices_ = 0 THEN [t |-> m, ok |-> TRUE]
    ELSE CopyToDeviceMap(m, i, j, 0)

RECURSIVE CopyToDevices(_, _, _, _)
\* the loop "Copy to devices" of tileSend, from device on
CopyToDevices(m, i, j, device) ==
    IF device >= num_devices_ THEN [t |-> m, ok |-> TRUE]
    ELSE LET res == CopyToDeviceMap(m, i, j, device)
         IN  IF res.ok THEN CopyToDevices(res.t, i, j, device + 1) ELSE res

\* "If receiving the tile": the receive slot and the life of rank r
RecvSlot(r, m, lv, i, j, life) ==
    IF ~ tileIsLocal(r, i, j)
    THEN [t |-> Put(Index(m, Key(i, j, host_num_)), Key(i, j, host_num_), Tile(Unwritten)),
          l |-> Put(lv, LKey(i, j), life)]
    ELSE [t |-> m, l |-> lv]

\* mutant of tileSendBcast: the broadcast delivers nothing to the receivers
tileSendBcastNoData(r, m, rootMap, i, j, bcast_set) ==
    LET root_rank == tileRank(i, j)
        rootIdx == Index(rootMap, Key(i, j, host_num_))
        rootTile == rootIdx[Key(i, j, host_num_)]
    IN  IF Cardinality(bcast_set) = 1
        THEN [t |-> m, s |-> "ok"]
        ELSE IF rootTile = nullptr
        THEN IF r = root_rank THEN [t |-> rootIdx, s |-> "crashed"]
                              ELSE [t |-> m, s |-> "blocked"]
        ELSE [t |-> m, s |-> "ok"]

\* tileSend(i, j, bcast_set) on member r of the set: its registry m and its
\* status after the MPI broadcast; rootMap is the registry of the root.  The
\* root dereferences its host pointer (tile->mb_): a null pointer there ends
\* the root, and the other members stay blocked in the collective.
tileSendBcast(r, m, rootMap, i, j, bcast_set) ==
    LET root_rank == tileRank(i, j)
        rootIdx == Index(rootMap, Key(i, j, host_num_))
        rootTile == rootIdx[Key(i, j, host_num_)]
    IN  IF Cardinality(bcast_set) = 1
        THEN [t |-> m, s |-> "ok"]
        ELSE IF rootTile = nullptr
        THEN IF r = root_rank THEN [t |-> rootIdx, s |-> "crashed"]
                              ELSE [t |-> m, s |-> "blocked"]
        ELSE [t |-> Put(Index(m, Key(i, j, host_num_)),
                        Key(i, j, host_num_), Tile(rootTile.data)),
              s |-> "ok"]

\* mutant of SendRank: the copy to the devices is made before the broadcast
SendRankCopyFirst(r, i, j, bcast_set, life, target) ==
    IF r \notin bcast_set
    THEN [t |-> tiles_[r], l |-> lives_[r], s |-> status[r]]
    ELSE LET prep == RecvSlot(r, tiles_[r], lives_[r], i, j, life)
             dev == IF target = "Devices"
                    THEN CopyToDevices(prep.t, i, j, 0)
                    ELSE [t |-> prep.t, ok |-> TRUE]
             sent == tileSendBcast(r, dev.t, tiles_[tileRank(i, j)], i, j,
                                   bcast_set)
         IN  [t |-> sent.t, l |-> prep.l,
              s |-> IF dev.ok THEN sent.s ELSE "crashed"]

\* mutant of SendRank: the test "if contained in the set" is missing
SendRankAnyRank(r, i, j, bcast_set, life, target) ==
    LET prep == RecvSlot(r, tiles_[r], lives_[r], i, j, life)
        sent == tileSendBcast(r, prep.t, tiles_[tileRank(i, j)], i, j,
                              bcast_set)
        dev == IF sent.s = "ok" /\ target = "Devices"
               THEN CopyToDevices(sent.t, i, j, 0)
               ELSE [t |-> sent.t, ok |-> TRUE]
    IN  [t |-> dev.t, l |-> prep.l,
         s |-> IF dev.ok THEN sent.s ELSE "crashed"]

\* The body of both tileSend(i, j, range...) overloads on rank r, given the
\* broadcast set and the life the rank computes.
SendRank(r, i, j, bcast_set, life, target) ==
    IF r \notin bcast_set
    THEN [t |-> tiles_[r], l |-> lives_[r], s |-> status[r]]
    ELSE LET prep == RecvSlot(r, tiles_[r], lives_[r], i, j, life)
             sent == tileSendBcast(r, prep.t, tiles_[tileRank(i, j)], i, j,
                                   bcast_set)
             dev == IF sent.s = "ok" /\ target = "Devices"
                    THEN CopyToDevices(sent.t, i, j, 0)
                    ELSE [t |-> sent.t, ok |-> TRUE]
         IN  [t |-> dev.t, l |-> prep.l,
              s |-> IF dev.ok THEN sent.s ELSE "crashed"]

\* history: a non-owner that returned from the broadcast starts counting ticks
SinceAfter(i, j, bcast_set, out) ==
    LET K == {<<r, it_ + i, jt_ + j>> : r \in bcast_set}
        New == {k \in K : out[k[1]].s = "ok" /\ ~ tileIsLocal(k[1], i, j)}
    IN  [k \in ((DOMAIN since) \ K) \cup New |->
            IF k \in New THEN [L |-> out[k[1]].l[LKey(i, j)], k |-> 0]
            ELSE since[k]]

SendApply(rg, i, j, bcast_set, lifeOf, target) ==
    /\ \A r \in bcast_set : status[r] = "ok"
    /\ \E out \in {[r \in Ranks |->
                      SendRank(r, i, j, bcast_set, lifeOf[r], target)]} :
           /\ tiles_' = [r \in Ranks |-> out[r].t]
           /\ lives_' = [r \in Ranks |-> out[r].l]
           /\ status' = [r \in Ranks |-> out[r].s]
           /\ since' = SinceAfter(i, j, bcast_set, out)
    /\ calls' = calls + 1
    /\ UNCHANGED others
    /\ last' = Call("tile_bcast", tileRank(i, j), i, j, host_num_, rg, target,
                     nullptr)

\* tileSend<target>(i, j, range), issued by every rank
tileSendRange(i, j, range, target) ==
    /\ calls < MaxCalls
    /\ \E bcast_set \in {tileSendFindRanks(range, {tileRank(i, j)})},
          lifeOf \in {[r \in Ranks |-> tileSendFindLife(r, range)]} :
           SendApply(<<range>>, i, j, bcast_set, lifeOf, target)

\* tileSend<target>(i, j, range1, range2), issued by every rank
tileSendRange2(i, j, range1, range2, target) ==
    /\ calls < MaxCalls
    /\ \E bcast_set \in {tileSendFindRanks(range2,
                              tileSendFindRanks(range1, {tileRank(i, j)}))},
          lifeOf \in {[r \in Ranks |-> tileSendFindLife(r, range1)
                                       + tileSendFindLife(r, range2)]} :
           SendApply(<<range1, range2>>, i, j, bcast_set, lifeOf, target)

Next ==
    \/ \E r \in Ranks, i \in Rows, j \in Cols :
        \/ \E d \in Devices : tileCopyToDevice(r, i, j, d)
        \/ \E d \in Devices : tileMoveToDevice(r, i, j, d)
        \/ \E d \in Devices : tileMoveToHost(r, i, j, d)
        \/ \E loc \in Locs : tileErase(r, i, j, loc)
        \/ \E loc \in Locs : tileGet(r, i, j, loc)
        \/ tileTick(r, i, j)
    \/ \E r \in Ranks, a \in Arrays : copyFrom(r, a)
    \/ \E i \in Rows, j \in Cols, tg \in Targets :
        \/ \E rg \in Ranges : tileSendRange(i, j, rg, tg)
        \/ \E rg1 \in Ranges, rg2 \in Ranges : tileSendRange2(i, j, rg1, rg2, tg)

Spec == Init /\ [][Next]_vars

\* ======================= properties =====================================
\* the locations at which rank registry m holds an entry of tile (i, j)
Entries(m, i, j) == {loc \in Locs : Key(i, j, loc) \in DOMAIN m}
\* the cells of a consumer range
CellsOf(rg) == (rg[1] .. rg[2]) \X (rg[3] .. rg[4])
\* the broadcast set of the last call, as the specification defines it
LastBcastSet ==
    {tileRank(last.i, last.j)} \cup
    {tileRank(c[1], c[2]) : c \in UNION {CellsOf(last.rg[n]) : n \in 1 .. Len(last.rg)}}
\* the cells of a range that rank r owns
OwnedCells(r, rg) == Cardinality({c \in CellsOf(rg) : tileRank(c[1], c[2]) = r})
\* the contents of the tile stored under key k (none for a null or no entry)
DataAt(m, k) == IF Resident(m, k) THEN m[k].data ELSE <<"none">>
LastHost == Key(last.i, last.j, host_num_)
LastKey == Key(last.i, last.j, last.loc)
\* move_to_host directly after the copy_to_device of a host-only tile
CopyThenMoveToHost == last.op = "move_to_host" /\ last.orig # nullptr

\* C1 (as stated): copy_to_device(i, j, d) then move_to_host(i, j, d) on a
\* host-only tile leaves exactly the host entry, equal to the original tile;
\* the device entry is gone.
C1_CopyMoveLeavesHostOnly ==
    CopyThenMoveToHost =>
        /\ Entries(tiles_[last.r], last.i, last.j) = {host_num_}
        /\ tiles_[last.r][LastHost] = last.orig

\* C1 (amended): copy_to_device(i, j, d) then move_to_host(i, j, d) on a
\* host-only tile leaves two entries of the tile: the host one, equal to the
\* original tile, and the device entry (i, j, d), a copy of it; move_to_host
\* changes nothing because the host copy is resident.
C1_CopyMoveKeepsBoth ==
    CopyThenMoveToHost =>
        /\ Entries(tiles_[last.r], last.i, last.j) = {host_num_, last.loc}
        /\ tiles_[last.r][LastHost] = last.orig
        /\ DataAt(tiles_[last.r], LastKey) = last.orig.data
        /\ tiles_[last.r] = last.pre[last.r]
        /\ status[last.r] = "ok"

C1_Witness == CopyThenMoveToHost

\* C2: a non-local tile received by tile_bcast with life L >= 1 and then only
\* ticked k times: for k < L the host entry and the counter L - k are present;
\* for k = L no entry of the tile is left at the host or on any device, and
\* the counter is removed.
C2_LifetimeReclamation ==
    \A key \in DOMAIN since :
        LET r == key[1]
            s == since[key]
        IN  s.L >= 1 =>
            /\ s.k < s.L =>
                /\ Resident(tiles_[r], <<key[2], key[3], host_num_>>)
                /\ <<key[2], key[3]>> \in DOMAIN lives_[r]
                /\ lives_[r][<<key[2], key[3]>>] = s.L - s.k
            /\ s.k = s.L =>
                /\ \A loc \in Locs : <<key[2], key[3], loc>> \notin DOMAIN tiles_[r]
                /\ <<key[2], key[3]>> \notin DOMAIN lives_[r]

\* a tile received with life 2 and copies on the devices, after its 2 ticks
C2_Witness ==
    /\ last.op = "tick"
    /\ <<last.r, it_ + last.i, jt_ + last.j>> \in DOMAIN since
    /\ since[<<last.r, it_ + last.i, jt_ + last.j>>] = [L |-> 2, k |-> 2]
    /\ Entries(last.pre[last.r], last.i, last.j) = Locs

\* C3 (as stated): the (L+1)-th tick of a received tile is reported as a fatal
\* InvariantViolated, and no negative life counter is stored.
C3_OverTickDetected ==
    \A key \in DOMAIN since :
        since[key].k > since[key].L =>
            /\ status[key[1]] = "crashed"
            /\ \A c \in DOMAIN lives_[key[1]] : lives_[key[1]][c] >= 0

C5_LifeFromRanges ==
    last.op = "tile_bcast" =>
        \A r \in LastBcastSet :
            status[r] = "ok" =>
                IF r = last.r
                THEN /\ LKey(last.i, last.j) \notin DOMAIN lives_[r]
                     /\ lives_[r] = last.prel[r]
                ELSE /\ LKey(last.i, last.j) \in DOMAIN lives_[r]
                     /\ lives_[r][LKey(last.i, last.j)] =
                            IF Len(last.rg) = 1
                            THEN OwnedCells(r, last.rg[1])
                            ELSE OwnedCells(r, last.rg[1]) + OwnedCells(r, last.rg[2])
                     /\ lives_[r][LKey(last.i, last.j)] >= 1

\* a two-range broadcast whose ranges share the cell of a receiving rank
C5_Witness ==
    /\ last.op = "tile_bcast"
    /\ Len(last.rg) = 2
    /\ \E r \in LastBcastSet :
        /\ r # last.r
        /\ status[r] = "ok"
        /\ OwnedCells(r, last.rg[1]) = 1
        /\ lives_[r][LKey(last.i, last.j)] = 2

\* C6 (as stated): tile(i, j, loc) on a key that is not in the registry fails
\* (fatal NotResident) and leaves the registry unchanged.
C6_LookupOfAbsentFails ==
    (last.op = "tile" /\ LastKey \notin DOMAIN last.pre[last.r]) =>
        /\ status[last.r] # "ok"
        /\ tiles_[last.r] = last.pre[last.r]

\* C7 (as stated): after move_to_device(i, j, dev) from any state with a host
\* copy, (i, j, dev) is in the registry and (i, j, host) is not.
C7_MoveToDeviceAlwaysMoves ==
    (last.op = "move_to_device" /\ Resident(last.pre[last.r], LastHost)) =>
        /\ LastKey \in DOMAIN tiles_[last.r]
        /\ LastHost \notin DOMAIN tiles_[last.r]

\* C7 (amended): from a state with a host copy, move_to_device(i, j, dev)
\* adds (i, j, dev) as a copy of the host tile and erases (i, j, host) when
\* (i, j, dev) was not resident; when (i, j, dev) was already resident it
\* changes nothing, and the host copy stays.
C7_MoveToDeviceUnlessResident ==
    (last.op = "move_to_device" /\ Resident(last.pre[last.r], LastHost)) =>
        /\ status[last.r] = "ok"
        /\ IF LastKey \in DOMAIN last.pre[last.r]
           THEN tiles_[last.r] = last.pre[last.r]
           ELSE /\ DOMAIN tiles_[last.r] =
                       ((DOMAIN last.pre[last.r]) \cup {LastKey}) \ {LastHost}
                /\ DataAt(tiles_[last.r], LastKey) = DataAt(last.pre[last.r], LastHost)
                /\ \A k \in (DOMAIN tiles_[last.r]) \ {LastKey} :
                       tiles_[last.r][k] = last.pre[last.r][k]

\* move_to_device of a tile with a host copy and a resident device copy
C7_Witness ==
    /\ last.op = "move_to_device"
    /\ Resident(last.pre[last.r], LastHost)
    /\ LastKey \in DOMAIN last.pre[last.r]

\* C8: copy_to_device(i, j, dev) changes nothing when (i, j, dev) is resident;
\* otherwise it adds exactly (i, j, dev), a copy of the host tile; the host
\* entry and all other entries, the lifetime table and the other ranks are
\* unchanged in both cases.
C8_CopyToDeviceFrame ==
    (last.op = "copy_to_device" /\ status[last.r] = "ok") =>
        /\ IF LastKey \in DOMAIN last.pre[last.r]
           THEN tiles_[last.r] = last.pre[last.r]
           ELSE /\ Resident(last.pre[last.r], LastHost)
                /\ DOMAIN tiles_[last.r] = (DOMAIN last.pre[last.r]) \cup {LastKey}
                /\ DataAt(tiles_[last.r], LastKey) = DataAt(last.pre[last.r], LastHost)
                /\ \A k \in DOMAIN last.pre[last.r] :
                       tiles_[last.r][k] = last.pre[last.r][k]
        /\ lives_ = last.prel
        /\ \A r \in Ranks \ {last.r} : tiles_[r] = last.pre[r]

\* copy_to_device of a tile whose resident device copy is older than the host
\* copy (the call leaves the old device copy alone)
C8_Witness ==
    /\ last.op = "copy_to_device"
    /\ status[last.r] = "ok"
    /\ Resident(last.pre[last.r], LastKey)
    /\ Resident(last.pre[last.r], LastHost)
    /\ DataAt(last.pre[last.r], LastKey) # DataAt(last.pre[last.r], LastHost)

\* C9: tick(i, j) of a tile local to the calling rank changes neither the
\* registry nor the lifetime table.
C9_TickLocalNoOp ==
    (last.op = "tick" /\ tileIsLocal(last.r, last.i, last.j)) =>
        /\ tiles_ = last.pre
        /\ lives_ = last.prel
        /\ status[last.r] = "ok"

\* the owner ticks its resident tile
C9_Witness ==
    /\ last.op = "tick"
    /\ tileIsLocal(last.r, last.i, last.j)
    /\ Resident(tiles_[last.r], LastHost)

\* C10 (as stated): in every reachable state a life counter > 0 has a
\* registry entry of its tile in at least one location.
C10_LifeImpliesEntry ==
    \A r \in Ranks :
        \A c \in DOMAIN lives_[r] :
            lives_[r][c] > 0 => \E loc \in Locs : <<c[1], c[2], loc>> \in DOMAIN tiles_[r]

\* ======================= Matrix objects ==================================
\* One process builds a Matrix with the constructor and takes views of it
\* with the submatrix constructor.  An object is a record of the fields of
\* class Matrix; its tiles_ and lives_ fields are addresses into heap.

\* ---- bounds of the constructor's arguments -------------------------------
MaxM == 4               \* m and n: 1 .. MaxM
MaxNb == 2              \* nb: 1 .. MaxNb
MaxGrid == 2            \* p and q: 1 .. MaxGrid

\* C++ integer division and remainder (truncation toward zero), b > 0
CDiv(a, b) == IF a >= 0 THEN a \div b ELSE -((-a) \div b)
CMod(a, b) == a - b * CDiv(a, b)

\* new: the next free address
NewAddress(h) == Cardinality(DOMAIN h) + 1

\* a ColMajorTile of mb x nb elements holding the elements d
ColMajorTile(mb, nb, d) == [data |-> d, mb_ |-> mb, nb_ |-> nb]

\* ---- the distribution lambdas of object o -------------------------------
\* mutant of tileRankFuncOf: the column term is scaled by q instead of p
tileRankFuncSwapped(o, i, j) == CMod(i, o.p) + CMod(j, o.q) * o.q

tileRankFuncOf(o, i, j) == CMod(i, o.p) + CMod(j, o.q) * o.p

tileDeviceFuncOf(o, i, j) ==
    IF o.num_devices_ > 0
    THEN CMod(CDiv(j, o.q), o.num_devices_)
    ELSE host_num_

tileMbFuncOf(o, i) == IF i * o.nb > o.m THEN CMod(o.m, o.nb) ELSE o.nb
tileNbFuncOf(o, j) == IF j * o.nb > o.n THEN CMod(o.n, o.nb) ELSE o.nb

tileRankOf(o, i, j) == tileRankFuncOf(o, o.it_ + i, o.jt_ + j)
tileDeviceOf(o, i, j) == tileDeviceFuncOf(o, o.it_ + i, o.jt_ + j)
tileMbOf(o, i) == tileMbFuncOf(o, o.it_ + i)
tileNbOf(o, j) == tileNbFuncOf(o, o.jt_ + j)
tileIsLocalOf(o, i, j) == tileRankOf(o, i, j) = o.mpi_rank_

\* the (i, j) the loops "i < mt_, j <= i" visit
LowerLoop(o) == {c \in (0 .. (o.mt_ - 1)) \X (0 .. (o.mt_ - 1)) : c[2] <= c[1]}

getMaxHostTiles(o) ==
    Cardinality({c \in LowerLoop(o) : tileIsLocalOf(o, c[1], c[2])})

getMaxDeviceTiles(o, device) ==
    Cardinality({c \in LowerLoop(o) :
                    /\ tileIsLocalOf(o, c[1], c[2])
                    /\ tileDeviceOf(o, c[1], c[2]) = device})

\* initBatchArrays: the length of the pointer arrays of each device
initBatchArrays(o) ==
    [device \in 0 .. (o.num_devices_ - 1) |-> getMaxDeviceTiles(o, device)]

\* copyTo(a, lda): the registry after the constructor's copy of array 0
copyTo(o) ==
    [k \in {<<o.it_ + c[1], o.jt_ + c[2], host_num_>> :
               c \in {c \in LowerLoop(o) : tileIsLocalOf(o, c[1], c[2])}} |->
        ColMajorTile(tileMbFuncOf(o, k[1]), tileNbFuncOf(o, k[2]),
                     Content(k[1], k[2]))]

\* the fields the constructor sets before it calls the init functions
NewMatrix(m, n, nb, gp, gq, cuda, rank, h) ==
    [m |-> m, n |-> n, nb |-> nb, p |-> gp, q |-> gq,
     it_ |-> 0, jt_ |-> 0,
     mt_ |-> IF m % nb = 0 THEN m \div nb ELSE m \div nb + 1,
     nt_ |-> IF n % nb = 0 THEN n \div nb ELSE n \div nb + 1,
     mpi_rank_ |-> rank,
     num_devices_ |-> IF cuda THEN num_devices_ ELSE 0,
     tiles_ |-> NewAddress(h), lives_ |-> NewAddress(h) + 1,
     batch |-> <<>>, host_blocks |-> 0,
     \* history: the object a view was taken of, and the bounds given
     parent |-> 0, args |-> <<0, 0, 0, 0>>]

\* history record of a query on object k
Asked(op, k, i, j, result) ==
    [op |-> op, k |-> k, i |-> i, j |-> j, result |-> result, alive |-> TRUE]

\* the process has not been ended by a failed assertion or a null pointer
Alive == last.alive

Ask(rec) ==
    /\ Alive
    /\ last' = rec
    /\ UNCHANGED <<tiles_, lives_, status, calls, since, mats, heap, gvars, tvars, kvars>>

\* Matrix(m, n, a, lda, nb, mpi_comm, p, q) on rank "rank" of a gp x gq grid;
\* cuda: the build has SLATE_WITH_CUDA
Construct(m, n, nb, gp, gq, cuda, rank) ==
    /\ mats = <<>>
    /\ LET o == NewMatrix(m, n, nb, gp, gq, cuda, rank, heap)
           o1 == [o EXCEPT !.batch = initBatchArrays(o),
                           !.host_blocks = getMaxHostTiles(o)]
       IN  /\ mats' = <<o1>>
           /\ heap' = (o.tiles_ :> copyTo(o)) @@ (o.lives_ :> <<>>) @@ heap
           /\ last' = Asked("construct", 1, 0, 0, 0)
    /\ UNCHANGED <<tiles_, lives_, status, calls, since, gvars, tvars, kvars>>

\* the queries are made on the tiles of the object's own grid
InRows(k, i) == k \in DOMAIN mats /\ i \in 0 .. (mats[k].mt_ - 1)
InCols(k, j) == k \in DOMAIN mats /\ j \in 0 .. (mats[k].nt_ - 1)

callTileRank(k, i, j) ==
    /\ InRows(k, i) /\ InCols(k, j)
    /\ Ask(Asked("tileRank", k, i, j, tileRankOf(mats[k], i, j)))

callTileDevice(k, i, j) ==
    /\ InRows(k, i) /\ InCols(k, j)
    /\ Ask(Asked("tileDevice", k, i, j, tileDeviceOf(mats[k], i, j)))

callTileMb(k, i) ==
    /\ InRows(k, i)
    /\ Ask(Asked("tileMb", k, i, 0, tileMbOf(mats[k], i)))

callTileNb(k, j) ==
    /\ InCols(k, j)
    /\ Ask(Asked("tileNb", k, 0, j, tileNbOf(mats[k], j)))

callGetMaxHostTiles(k) ==
    /\ k \in DOMAIN mats
    /\ Ask(Asked("getMaxHostTiles", k, 0, 0, getMaxHostTiles(mats[k])))

callGetMaxDeviceTiles(k, device) ==
    /\ k \in DOMAIN mats
    /\ device < mats[k].num_devices_
    /\ Ask(Asked("getMaxDeviceTiles", k, device, 0,
                 getMaxDeviceTiles(mats[k], device)))

InitDist ==
    /\ Idle
    /\ tiles_ = [r \in Ranks |-> <<>>]
    /\ lives_ = [r \in Ranks |-> <<>>]
    /\ status = [r \in Ranks |-> "ok"]
    /\ calls = 0
    /\ last = Asked("none", 0, 0, 0, 0)
    /\ since = <<>>

NextDist ==
    \/ \E m \in 1 .. MaxM, n \in 1 .. MaxM, nb \in 1 .. MaxNb,
          gp \in 1 .. MaxGrid, gq \in 1 .. MaxGrid, cuda \in BOOLEAN :
        \E rank \in 0 .. (gp * gq - 1) : Construct(m, n, nb, gp, gq, cuda, rank)
    \/ \E i \in 0 .. (MaxM - 1), j \in 0 .. (MaxM - 1) :
        \/ callTileRank(1, i, j)
        \/ callTileDevice(1, i, j)
        \/ callTileMb(1, i)
        \/ callTileNb(1, j)
    \/ callGetMaxHostTiles(1)
    \/ \E device \in Devices : callGetMaxDeviceTiles(1, device)

SpecDist == InitDist /\ [][NextDist]_vars

\* ---- views ---------------------------------------------------------------
ViewM == 2              \* the viewed parent has ViewM x ViewM tiles
MaxViews == 2           \* views taken in one behaviour
MaxViewCalls == 1       \* tile operations made through the objects

Objs == 1 .. (MaxViews + 1)
\* the bounds handed to the submatrix constructor: from below the parent's
\* grid to above it, and the ones that are not negative
ViewArgs == -1 .. ViewM
NatArgs == 0 .. ViewM

\* the assertions of the submatrix constructor
SubmatrixAsserts(a, m1, m2, n1, n2) ==
    /\ m1 <= m2
    /\ n1 <= n2
    /\ m2 < a.mt_
    /\ n2 < a.nt_

\* mutant of SubmatrixFields: the offsets are set, not added to the parent's
SubmatrixFieldsAbsolute(a, m1, m2, n1, n2) ==
    [a EXCEPT !.it_ = m1, !.jt_ = n1,
              !.mt_ = m2 - m1 + 1, !.nt_ = n2 - n1 + 1]

\* "*this = a" (every field, the two Map pointers and the batch arrays
\* included), then the four assignments
SubmatrixFields(a, m1, m2, n1, n2) ==
    [a EXCEPT !.it_ = a.it_ + m1, !.jt_ = a.jt_ + n1,
              !.mt_ = m2 - m1 + 1, !.nt_ = n2 - n1 + 1]

\* Matrix(a, m1, m2, n1, n2) with a = mats[k]
Submatrix(k, m1, m2, n1, n2) ==
    /\ Alive
    /\ k \in DOMAIN mats
    /\ Len(mats) <= MaxViews
    /\ IF SubmatrixAsserts(mats[k], m1, m2, n1, n2)
       THEN /\ mats' = Append(mats, [SubmatrixFields(mats[k], m1, m2, n1, n2)
                                        EXCEPT !.parent = k,
                                               !.args = <<m1, m2, n1, n2>>])
            /\ last' = Asked("submatrix", Len(mats) + 1, 0, 0, 0)
       ELSE /\ mats' = mats
            /\ last' = [Asked("submatrix", k, 0, 0, 0) EXCEPT !.alive = FALSE]
    /\ UNCHANGED <<tiles_, lives_, status, calls, since, heap, gvars, tvars, kvars>>

\* the registry after the tile operation "op" made through object o on tile
\* (i, j) and location loc, and whether the call returned
ObjMap(o, op, h, i, j, loc) ==
    CASE op = "copy_to_device" ->
            CopyToDeviceMap(h[o.tiles_], o.it_ + i, o.jt_ + j, loc)
      [] op = "move_to_device" ->
            MoveToDeviceMap(h[o.tiles_], o.it_ + i, o.jt_ + j, loc)
      [] op = "move_to_host" ->
            MoveToHostMap(h[o.tiles_], o.it_ + i, o.jt_ + j, loc)
      [] op = "erase" ->
            [t |-> EraseMap(h[o.tiles_], o.it_ + i, o.jt_ + j, loc), ok |-> TRUE]

\* a tile operation made through object k
ObjCall(k, op, i, j, loc) ==
    /\ k \in DOMAIN mats
    /\ InRows(k, i) /\ InCols(k, j)
    /\ calls < MaxViewCalls
    /\ LET res == ObjMap(mats[k], op, heap, i, j, loc)
       IN  /\ heap' = [heap EXCEPT ![mats[k].tiles_] = res.t]
           /\ last' = [op |-> op, k |-> k, i |-> i, j |-> j, loc |-> loc,
                       result |-> 0, alive |-> res.ok, pre |-> heap]
    /\ calls' = calls + 1
    /\ UNCHANGED <<tiles_, lives_, status, since, mats, gvars, tvars, kvars>>

objCopyToDevice(k, i, j, dev) ==
    /\ Alive
    /\ ObjCall(k, "copy_to_device", i, j, dev)

objMoveToDevice(k, i, j, dev) ==
    /\ Alive
    /\ ObjCall(k, "move_to_device", i, j, dev)

objMoveToHost(k, i, j, dev) ==
    /\ Alive
    /\ ObjCall(k, "move_to_host", i, j, dev)

objErase(k, i, j, loc) ==
    /\ Alive
    /\ ObjCall(k, "erase", i, j, loc)

\* views of views, with bounds on either side of the parent's grid
NextSub ==
    \/ \E rank \in Ranks : Construct(ViewM, ViewM, 1, p, q, TRUE, rank)
    \/ \E k \in Objs, m1 \in ViewArgs, m2 \in ViewArgs,
          n1 \in ViewArgs, n2 \in ViewArgs : Submatrix(k, m1, m2, n1, n2)
    \/ \E k \in Objs, device \in Devices : callGetMaxDeviceTiles(k, device)

SpecSub == InitDist /\ [][NextSub]_vars

\* views of views, and tile operations made through the objects
NextView ==
    \/ \E rank \in Ranks : Construct(ViewM, ViewM, 1, p, q, TRUE, rank)
    \/ \E k \in Objs, m1 \in NatArgs, m2 \in NatArgs,
          n1 \in NatArgs, n2 \in NatArgs : Submatrix(k, m1, m2, n1, n2)
    \/ \E k \in Objs, i \in 0 .. (ViewM - 1), j \in 0 .. (ViewM - 1) :
        \/ \E dev \in Devices :
            \/ objCopyToDevice(k, i, j, dev)
            \/ objMoveToDevice(k, i, j, dev)
            \/ objMoveToHost(k, i, j, dev)
        \/ \E loc \in Locs : objErase(k, i, j, loc)

SpecView == InitDist /\ [][NextView]_vars

\* ---- properties of the constructor's distribution -----------------------
\* the object the last call was made on, and the global tile it named
LastObj == mats[last.k]
LastI == LastObj.it_ + last.i
LastJ == LastObj.jt_ + last.j
\* the tiles of object o's own grid
Grid(o) == (0 .. (o.mt_ - 1)) \X (0 .. (o.nt_ - 1))

\* C11: with the default mappings, for every (I, J) of the tile grid the
\* owner rank is (I mod p) + (J mod q) * p and lies in [0, p*q); the device
\* is (J / q) mod D and lies in [0, D) when D > 0, and is the host id when
\* D = 0.
C11_DistributionTotal ==
    /\ last.op = "tileRank" =>
        /\ last.result = (LastI % LastObj.p) + (LastJ % LastObj.q) * LastObj.p
        /\ last.result \in 0 .. (LastObj.p * LastObj.q - 1)
    /\ last.op = "tileDevice" =>
        IF LastObj.num_devices_ > 0
        THEN /\ last.result = (LastJ \div LastObj.q) % LastObj.num_devices_
             /\ last.result \in 0 .. (LastObj.num_devices_ - 1)
        ELSE last.result = host_num_

\* the owner of a tile in the last row and column of a grid of ranks with
\* more than one column
C11_Witness ==
    /\ last.op = "tileRank"
    /\ LastObj.q > 1
    /\ LastObj.p > 1
    /\ last.result = LastObj.p * LastObj.q - 1

\* C12 (as stated): mt = ceil(m / nb) and nt = ceil(n / nb); the height of
\* tile row I is nb for I < mt - 1 and m - (mt - 1) * nb for the last row,
\* the width of tile column J is nb for J < nt - 1 and n - (nt - 1) * nb for
\* the last column.
C12_TileExtents ==
    /\ last.op = "tileMb" =>
        /\ (LastObj.mt_ - 1) * LastObj.nb < LastObj.m
        /\ LastObj.m <= LastObj.mt_ * LastObj.nb
        /\ last.result = IF LastI < LastObj.mt_ - 1 THEN LastObj.nb
                         ELSE LastObj.m - (LastObj.mt_ - 1) * LastObj.nb
    /\ last.op = "tileNb" =>
        /\ (LastObj.nt_ - 1) * LastObj.nb < LastObj.n
        /\ LastObj.n <= LastObj.nt_ * LastObj.nb
        /\ last.result = IF LastJ < LastObj.nt_ - 1 THEN LastObj.nb
                         ELSE LastObj.n - (LastObj.nt_ - 1) * LastObj.nb

\* the host tiles of object o in the registry
HostTiles(o) == {k \in DOMAIN heap[o.tiles_] : k[3] = host_num_}

\* C19 (as stated): max_local_tiles is the number of tiles (i, j) of the
\* matrix's own grid (i < mt, j < nt) with j <= i that the calling rank owns
\* (and, for a device, whose device is that device); the host count equals
\* the number of host tiles the constructor created.
C19_CountsOwnGrid ==
    /\ last.op = "getMaxHostTiles" =>
        /\ last.result =
              Cardinality({c \in Grid(LastObj) :
                              /\ c[2] <= c[1]
                              /\ tileRankOf(LastObj, c[1], c[2]) = LastObj.mpi_rank_})
        /\ last.result = Cardinality(HostTiles(LastObj))
    /\ last.op = "getMaxDeviceTiles" =>
        last.result =
            Cardinality({c \in Grid(LastObj) :
                            /\ c[2] <= c[1]
                            /\ tileRankOf(LastObj, c[1], c[2]) = LastObj.mpi_rank_
                            /\ tileDeviceOf(LastObj, c[1], c[2]) = last.i})

\* ---- properties of the views ---------------------------------------------
IsView(k) == k \in DOMAIN mats /\ mats[k].parent # 0
ParentOf(k) == mats[mats[k].parent]
ViewOps == {"copy_to_device", "move_to_device", "move_to_host", "erase"}

\* C13: a view taken with (i1, i2, j1, j2) has the offsets (it+i1, jt+j1) and
\* the extents (i2-i1+1, j2-j1+1) and the registry and lifetime table of its
\* parent; owner and device of its tile (i, j) are the parent's at
\* (i1+i, j1+j); and a tile operation made through the view at (i, j, loc)
\* leaves the registry as the same operation made through the parent at
\* (i1+i, j1+j, loc) does.
C13_ViewSharing ==
    /\ \A k \in DOMAIN mats :
        IsView(k) =>
            LET o == mats[k]
                u == ParentOf(k)
            IN  /\ o.it_ = u.it_ + o.args[1]
                /\ o.jt_ = u.jt_ + o.args[3]
                /\ o.mt_ = o.args[2] - o.args[1] + 1
                /\ o.nt_ = o.args[4] - o.args[3] + 1
                /\ o.tiles_ = u.tiles_
                /\ o.lives_ = u.lives_
                /\ \A c \in Grid(o) :
                    /\ tileRankOf(o, c[1], c[2]) =
                           tileRankOf(u, o.args[1] + c[1], o.args[3] + c[2])
                    /\ tileDeviceOf(o, c[1], c[2]) =
                           tileDeviceOf(u, o.args[1] + c[1], o.args[3] + c[2])
    /\ (last.op \in ViewOps /\ IsView(last.k)) =>
            LET o == mats[last.k]
                u == ParentOf(last.k)
                res == ObjMap(u, last.op, last.pre, o.args[1] + last.i,
                              o.args[3] + last.j, last.loc)
            IN  /\ heap[u.tiles_] = res.t
                /\ last.alive = res.ok

\* a device copy made through a view of a view whose parent has an offset
C13_Witness ==
    /\ last.op = "copy_to_device"
    /\ last.alive
    /\ IsView(last.k)
    /\ IsView(mats[last.k].parent)
    /\ ParentOf(last.k).it_ > 0
    /\ ParentOf(last.k).jt_ > 0
    /\ heap # last.pre

\* view k was taken with bounds inside its parent's grid
TakenInRange(k) ==
    LET a == mats[k].args
        u == ParentOf(k)
    IN  /\ 0 <= a[1] /\ a[1] <= a[2] /\ a[2] < u.mt_
        /\ 0 <= a[3] /\ a[3] <= a[4] /\ a[4] < u.nt_

\* C14 (as stated): submatrix(i1, i2, j1, j2) produces no view when any of
\* i1 < 0, j1 < 0, i2 >= mt, j2 >= nt, i1 > i2, j1 > j2 holds: every view
\* that exists was taken with bounds inside its parent's grid.
C14_OutOfRangeRejected == \A k \in DOMAIN mats : IsView(k) => TakenInRange(k)

\* C18 (as stated): the batch pointer arrays of device d, sized when the
\* parent was constructed, hold at least max_local_tiles(d) entries of every
\* matrix that shares them, views (taken with bounds in range) included.
C18_BatchCapacity ==
    (/\ last.op = "getMaxDeviceTiles"
     /\ \A k \in DOMAIN mats : IsView(k) => TakenInRange(k))
    => mats[last.k].batch[last.i] >= last.result

\* ---- further properties of the broadcast ---------------------------------
\* the broadcast set the code computes for the last call
LastFoundRanks ==
    IF Len(last.rg) = 1
    THEN tileSendFindRanks(last.rg[1], {tileRank(last.i, last.j)})
    ELSE tileSendFindRanks(last.rg[2],
             tileSendFindRanks(last.rg[1], {tileRank(last.i, last.j)}))

\* C15: the broadcast set of tile_bcast is the owner of (I, J) together with
\* the owners of the cells of each range; every other member of the set gets
\* the receive slot and the life counter, and a rank outside the set returns
\* with its registry and lifetime table unchanged.
C15_OutsideSetUntouched ==
    last.op = "tile_bcast" =>
        /\ LastFoundRanks = LastBcastSet
        /\ \A r \in LastBcastSet \ {last.r} :
            /\ LastHost \in DOMAIN tiles_[r]
            /\ LKey(last.i, last.j) \in DOMAIN lives_[r]
        /\ \A r \in Ranks \ LastBcastSet :
            /\ tiles_[r] = last.pre[r]
            /\ lives_[r] = last.prel[r]

\* a broadcast to the devices that acted on the owner and left out a rank
C15_Witness ==
    /\ last.op = "tile_bcast"
    /\ LastBcastSet # Ranks
    /\ tiles_[last.r] # last.pre[last.r]

\* ======================= gather ==========================================
\* Every rank runs gather() step by step: pc[r] is [ph, at, n] with ph
\* "idle" (not in gather), "call" (about to call tileSend or tileRecv for
\* tile at) or "wait" (rank 0 inside MPI_Recv), and n the gathers begun.
\* MPI delivers the messages of one sender with the same tag in the order
\* sent; MPI_Send returns once the message is buffered.
MaxGathers == 2         \* calls of gather() per rank
ChanCap == 2            \* messages of one sender that MPI buffers

RECURSIVE GatherFrom(_, _, _)
\* the loops of gather() on rank r from iteration (i, j) on: the next tile
\* for which r calls tileRecv (rank 0) or tileSend (the others), <<>> if none
GatherFrom(r, i, j) ==
    IF i >= MT THEN <<>>
    ELSE IF ~ (j <= i /\ j < NT) THEN GatherFrom(r, i + 1, 0)
    ELSE IF r = 0
    THEN (IF ~ tileIsLocal(r, i, j) THEN <<i, j>> ELSE GatherFrom(r, i, j + 1))
    ELSE (IF tileIsLocal(r, i, j) THEN <<i, j>> ELSE GatherFrom(r, i, j + 1))

\* pc of a rank that goes on to iteration "at" of its n-th gather
GatherAt(at, n) ==
    [ph |-> IF at = <<>> THEN "idle" ELSE "call", at |-> at, n |-> n]

\* gather() is called on rank r
gatherCall(r) ==
    /\ status[r] = "ok"
    /\ pc[r].ph = "idle"
    /\ pc[r].n < MaxGathers
    /\ pc' = [pc EXCEPT ![r] = GatherAt(GatherFrom(r, 0, 0), pc[r].n + 1)]
    /\ snap' = [snap EXCEPT ![r] = Append(@, tiles_[r])]
    /\ last' = Call("gather", r, 0, 0, host_num_, <<>>, "Host", nullptr)
    /\ UNCHANGED <<tiles_, lives_, status, calls, since, chan, mats, heap, tvars, kvars>>

\* tileSend(i, j, dest = 0) on rank r # 0: the host pointer is looked up and
\* dereferenced, and the elements are sent
tileSendDest(r) ==
    /\ r # 0
    /\ status[r] = "ok"
    /\ pc[r].ph = "call"
    /\ LET i == pc[r].at[1]
           j == pc[r].at[2]
           m1 == Index(tiles_[r], Key(i, j, host_num_))
           tile == m1[Key(i, j, host_num_)]
       IN  /\ tiles_' = [tiles_ EXCEPT ![r] = m1]
           /\ IF tile = nullptr
              THEN /\ status' = [status EXCEPT ![r] = "crashed"]
                   /\ UNCHANGED <<pc, chan>>
              ELSE /\ Len(chan[r]) < ChanCap
                   /\ chan' = [chan EXCEPT ![r] = Append(@, tile.data)]
                   /\ pc' = [pc EXCEPT ![r] =
                                GatherAt(GatherFrom(r, i, j + 1), pc[r].n)]
                   /\ UNCHANGED status
           /\ last' = Call("send", r, i, j, host_num_, <<>>, "Host", nullptr)
    /\ UNCHANGED <<lives_, calls, since, snap, mats, heap, tvars, kvars>>

\* tileRecv up to MPI_Recv: a new tile is stored in the host slot
tileRecvSlot(m, i, j) ==
    Put(Index(m, Key(i, j, host_num_)), Key(i, j, host_num_), Tile(Unwritten))

\* mutant of tileRecvDone: the elements received are not stored in the tile
tileRecvDoneDropped(m, i, j, msg) == m

\* MPI_Recv returns: the elements of the message are in the tile's data_
tileRecvDone(m, i, j, msg) == Put(m, Key(i, j, host_num_), Tile(msg))

\* tileRecv(i, j, src) is called on rank 0
tileRecv ==
    /\ status[0] = "ok"
    /\ pc[0].ph = "call"
    /\ tiles_' = [tiles_ EXCEPT ![0] =
                     tileRecvSlot(tiles_[0], pc[0].at[1], pc[0].at[2])]
    /\ pc' = [pc EXCEPT ![0].ph = "wait"]
    /\ last' = Call("recv", 0, pc[0].at[1], pc[0].at[2], host_num_, <<>>,
                    "Host", nullptr)
    /\ UNCHANGED <<lives_, status, calls, since, chan, snap, mats, heap, tvars, kvars>>

\* MPI_Recv on rank 0 matches the oldest message of rank src = tileRank(i, j)
tileRecvReturn ==
    /\ pc[0].ph = "wait"
    /\ LET i == pc[0].at[1]
           j == pc[0].at[2]
           src == tileRank(i, j)
       IN  /\ chan[src] # <<>>
           /\ tiles_' = [tiles_ EXCEPT ![0] =
                            tileRecvDone(tiles_[0], i, j, Head(chan[src]))]
           /\ chan' = [chan EXCEPT ![src] = Tail(@)]
           /\ pc' = [pc EXCEPT ![0] = GatherAt(GatherFrom(0, i, j + 1), pc[0].n)]
           /\ last' = Call("recv_done", 0, i, j, host_num_, <<>>, "Host", nullptr)
    /\ UNCHANGED <<lives_, status, calls, since, snap, mats, heap, tvars, kvars>>

NextGather ==
    \/ \E r \in Ranks : gatherCall(r)
    \/ \E r \in Ranks : tileSendDest(r)
    \/ tileRecv
    \/ tileRecvReturn
    \* between two gathers a rank overwrites or erases tiles
    \/ \E r \in Ranks, a \in Arrays : pc[r].ph = "idle" /\ copyFrom(r, a)
    \/ \E r \in Ranks, i \in Rows, j \in Cols, loc \in Locs :
        pc[r].ph = "idle" /\ tileErase(r, i, j, loc)

SpecGather == Init /\ [][NextGather]_vars

\* ---- properties of gather -------------------------------------------------
\* the tiles of the grid's lower triangle
LowerGrid == {c \in Rows \X Cols : c[2] <= c[1]}
HostKey(c) == Key(c[1], c[2], host_num_)
\* rank 0 has just returned from gather()
RootReturned ==
    /\ last.r = 0
    /\ last.op \in {"gather", "recv_done"}
    /\ pc[0].ph = "idle"
\* when the ranks began their n-th gather, every tile of the lower triangle
\* was resident on its owner
OwnersHeld(n) ==
    \A c \in LowerGrid :
        LET o == tileRank(c[1], c[2])
        IN  Len(snap[o]) >= n /\ Resident(snap[o][n], HostKey(c))

\* C16: when gather() has returned on rank 0, and every tile of the lower
\* triangle was resident on its owner, rank 0 holds a host entry of every
\* (I, J) with J <= I with the contents of the owner's tile; a rank other
\* than 0 returns from each send of its gather with its registry unchanged.
C16_GatherFidelity ==
    /\ (RootReturned /\ OwnersHeld(pc[0].n)) =>
        \A c \in LowerGrid :
            /\ Resident(tiles_[0], HostKey(c))
            /\ DataAt(tiles_[0], HostKey(c)) =
                   DataAt(snap[tileRank(c[1], c[2])][pc[0].n], HostKey(c))
    /\ (last.op \in {"gather", "send"} /\ last.r # 0 /\ status[last.r] = "ok") =>
        tiles_[last.r] = snap[last.r][pc[last.r].n]

\* rank 0 returns with a tile whose owner had overwritten it before gathering
C16_Witness ==
    /\ RootReturned
    /\ last.op = "recv_done"
    /\ OwnersHeld(pc[0].n)
    /\ \E c \in LowerGrid :
        /\ tileRank(c[1], c[2]) # 0
        /\ Resident(tiles_[0], HostKey(c))
        /\ DataAt(tiles_[0], HostKey(c)) # Content(it_ + c[1], jt_ + c[2])

\* C20 (as stated): recv(i, j, src) into a host slot that is already resident
\* is a fatal InvariantViolated and leaves the existing entry in place.
C20_RecvIntoResidentDetected ==
    (last.op = "recv" /\ Resident(last.pre[0], LastHost)) =>
        /\ status[0] = "crashed"
        /\ tiles_[0][LastHost] = last.pre[0][LastHost]

\* ======================= transport calls of the tasks of one rank ========
\* Tasks of one rank call tileSend(i, j, dest), tileRecv and the broadcast
\* tileSend(i, j, bcast_set) concurrently.  tpc[t] is [kind, step, inside]:
\* the call of the task, the index of its next MPI call, and whether the
\* task is executing that MPI call.
MaxTasks == 3           \* tasks of the rank

Kinds == {"send", "recv", "tile_bcast", "tile_bcast_alone"}

\* mutant of TransportCalls: MPI_Comm_rank is called outside the critical
\* section
TransportCallsBareRank(kind) ==
    CASE kind = "send" -> <<[mpi |-> "MPI_Send", critical |-> TRUE]>>
      [] kind = "recv" -> <<[mpi |-> "MPI_Recv", critical |-> TRUE]>>
      [] kind = "tile_bcast_alone" -> <<>>
      [] kind = "tile_bcast" ->
            <<[mpi |-> "MPI_Group_incl", critical |-> TRUE],
              [mpi |-> "MPI_Comm_create_group", critical |-> TRUE],
              [mpi |-> "MPI_Comm_rank", critical |-> FALSE],
              [mpi |-> "MPI_Group_translate_ranks", critical |-> TRUE],
              [mpi |-> "MPI_Bcast", critical |-> TRUE],
              [mpi |-> "MPI_Group_free", critical |-> TRUE],
              [mpi |-> "MPI_Comm_free", critical |-> TRUE]>>

\* the MPI calls of a call of each kind, in program order, and whether the
\* statement is under "#pragma omp critical(slate_mpi)"; tile_bcast_alone is
\* the broadcast whose set has one member, which returns before any MPI call
TransportCalls(kind) ==
    CASE kind = "send" -> <<[mpi |-> "MPI_Send", critical |-> TRUE]>>
      [] kind = "recv" -> <<[mpi |-> "MPI_Recv", critical |-> TRUE]>>
      [] kind = "tile_bcast_alone" -> <<>>
      [] kind = "tile_bcast" ->
            <<[mpi |-> "MPI_Group_incl", critical |-> TRUE],
              [mpi |-> "MPI_Comm_create_group", critical |-> TRUE],
              [mpi |-> "MPI_Comm_rank", critical |-> TRUE],
              [mpi |-> "MPI_Group_translate_ranks", critical |-> TRUE],
              [mpi |-> "MPI_Bcast", critical |-> TRUE],
              [mpi |-> "MPI_Group_free", critical |-> TRUE],
              [mpi |-> "MPI_Comm_free", critical |-> TRUE]>>

\* the MPI call task t is at, if any
Pending(t) == tpc[t].step <= Len(TransportCalls(tpc[t].kind))
NextCall(t) == TransportCalls(tpc[t].kind)[tpc[t].step]

\* a task begins a call of the given kind
taskCall(kind) ==
    /\ Len(tpc) < MaxTasks
    /\ tpc' = Append(tpc, [kind |-> kind, step |-> 1, inside |-> FALSE])
    /\ UNCHANGED <<tiles_, lives_, status, calls, last, since, mats, heap,
                   gvars, slate_mpi, kvars>>

\* task t enters its next MPI call: under the pragma it waits until no task
\* is in a critical section of that name
mpiEnter(t) ==
    /\ t \in DOMAIN tpc
    /\ Pending(t)
    /\ ~ tpc[t].inside
    /\ IF NextCall(t).critical
       THEN /\ slate_mpi = NoTask
            /\ slate_mpi' = {t}
       ELSE UNCHANGED slate_mpi
    /\ tpc' = [tpc EXCEPT ![t].inside = TRUE]
    /\ UNCHANGED <<tiles_, lives_, status, calls, last, since, mats, heap, gvars,
                   kvars>>

\* the MPI call of task t returns, and the critical section ends with it
mpiReturn(t) ==
    /\ t \in DOMAIN tpc
    /\ tpc[t].inside
    /\ slate_mpi' = IF NextCall(t).critical THEN NoTask ELSE slate_mpi
    /\ tpc' = [tpc EXCEPT ![t].inside = FALSE, ![t].step = @ + 1]
    /\ UNCHANGED <<tiles_, lives_, status, calls, last, since, mats, heap, gvars,
                   kvars>>

NextTransport ==
    \/ \E kind \in Kinds : taskCall(kind)
    \/ \E t \in 1 .. MaxTasks : mpiEnter(t)
    \/ \E t \in 1 .. MaxTasks : mpiReturn(t)

SpecTransport == Init /\ [][NextTransport]_vars

\* C17: on one rank, in every interleaving of tasks that call send, recv and
\* tile_bcast, at most one task is executing a transport call.
C17_TransportSerialized ==
    Cardinality({t \in DOMAIN tpc : tpc[t].inside}) <= 1

\* a task is inside MPI_Bcast while two others wait for their MPI calls
C17_Witness ==
    \E t \in DOMAIN tpc :
        /\ tpc[t].inside
        /\ tpc[t].kind = "tile_bcast"
        /\ NextCall(t).mpi = "MPI_Bcast"
        /\ Cardinality({u \in DOMAIN tpc : Pending(u) /\ ~ tpc[u].inside}) >= 2

\* ======================= tasks of one rank on the two Maps ================
\* The tasks of one rank call tileTick, tileCopyToDevice and the broadcast
\* tileSend(i, j, range) on one tile.  A statement of Matrix is one step; a
\* call of a Map member function (find, operator[], erase) is atomic, the
\* Map holding its lock for the call.  The registry holds pointers: a tile
\* object lives in store[r] under its address until it is deleted.
TaskMT == 3             \* tile rows of the matrix the tasks work on
MaxWork == 3            \* tasks the rank starts in one behaviour

TaskRows == 0 .. (TaskMT - 1)
TaskRanges ==
    {rg \in TaskRows \X TaskRows \X Cols \X Cols : rg[1] <= rg[2] /\ rg[3] <= rg[4]}

\* a Tile*: the address of a tile object
Ptr(a) == [addr |-> a]
\* a tile object at location loc holding the elements d
Object(d, loc) == [data |-> d, loc |-> loc, deleted |-> 0]

\* the tiles the constructor allocates on rank r (loops i < mt_, j <= i)
TaskLower(r) ==
    {c \in TaskRows \X TaskRows : c[2] <= c[1] /\ tileIsLocal(r, c[1], c[2])}
TileAddress(i, j) == i * TaskMT + j + 1
InitPtrs(r) ==
    [k \in {Key(c[1], c[2], host_num_) : c \in TaskLower(r)} |->
        Ptr(TileAddress(k[1], k[2]))]
InitStore(r) ==
    [a \in {TileAddress(c[1], c[2]) : c \in TaskLower(r)} |->
        LET c == CHOOSE c \in TaskLower(r) : TileAddress(c[1], c[2]) = a
        IN  Object(Content(c[1], c[2]), host_num_)]
\* new: an address no tile object of the rank has had
NewTile(s) ==
    TaskMT * TaskMT + 1 + Cardinality({a \in DOMAIN s : a > TaskMT * TaskMT})

InitTasks ==
    /\ mats = <<>>
    /\ heap = <<>>
    /\ pc = [r \in Ranks |-> [ph |-> "idle", at |-> <<>>, n |-> 0]]
    /\ chan = [r \in Ranks |-> <<>>]
    /\ snap = [r \in Ranks |-> <<>>]
    /\ tpc = <<>>
    /\ slate_mpi = NoTask
    /\ tiles_ = [r \in Ranks |-> InitPtrs(r)]
    /\ lives_ = [r \in Ranks |-> <<>>]
    /\ status = [r \in Ranks |-> "ok"]
    /\ calls = 0
    /\ last = [op |-> "none"]
    /\ since = <<>>
    /\ task = <<>>
    /\ store = [r \in Ranks |-> InitStore(r)]
    /\ prog = <<>>
    /\ ctl = <<>>
    /\ mpi = <<>>
    /\ lock = <<>>
    /\ eig = <<>>

\* what a step of a task leaves alone
TaskFrame ==
    UNCHANGED <<calls, last, since, mats, heap, gvars, tvars, prog, ctl, mpi,
                lock, eig>>

Done(t) == task[t].pc = "done"
\* task t of rank r is at label l
At(t, l) ==
    /\ t \in DOMAIN task
    /\ task[t].pc = l
    /\ status[task[t].r] = "ok"

\* a task of rank r begins a call on tile (i, j): all tasks of a behaviour
\* are tasks of one rank on one tile.  History: was, the host pointer at the
\* call; made, the tile objects there were; alone, no task was running
NewTask(op, r, i, j, dev, rg, target, l) ==
    /\ Len(task) < MaxWork
    /\ status[r] = "ok"
    /\ task # <<>> => task[1].r = r /\ task[1].i = i /\ task[1].j = j
    /\ \A t \in DOMAIN task : task[t].op = "tile_bcast" => Done(t)
    /\ task' = Append(task,
                 [op |-> op, r |-> r, i |-> i, j |-> j, dev |-> dev,
                  rg |-> rg, target |-> target, pc |-> l, val |-> 0,
                  ptr |-> nullptr, loc |-> host_num_, life |-> 0,
                  was |-> IF Key(i, j, host_num_) \in DOMAIN tiles_[r]
                          THEN tiles_[r][Key(i, j, host_num_)] ELSE nullptr,
                  made |-> DOMAIN store[r],
                  alone |-> \A t \in DOMAIN task : Done(t)])
    /\ UNCHANGED <<tiles_, lives_, status, store>>
    /\ TaskFrame

\* ---- tileTick(i, j) -------------------------------------------------------
callTick(r, i, j) ==
    /\ status[r] = "ok"
    /\ NewTask("tick", r, i, j, 0, <<>>, "Host",
               IF ~ tileIsLocal(r, i, j) THEN "load" ELSE "done")

\* --(*lives_)[{it_+i, jt_+j}], first half: operator[] (which inserts 0 for
\* a missing key) and the read of the counter
tickLoad(t) ==
    /\ At(t, "load")
    /\ LET r == task[t].r
           k == LKey(task[t].i, task[t].j)
           lv == IF k \in DOMAIN lives_[r] THEN lives_[r] ELSE Put(lives_[r], k, 0)
       IN  /\ lives_' = [lives_ EXCEPT ![r] = lv]
           /\ task' = [task EXCEPT ![t].val = lv[k], ![t].pc = "store"]
    /\ UNCHANGED <<tiles_, status, store>>
    /\ TaskFrame

\* second half: the write of the counter through the reference, and the
\* test "life == 0"; a reference to an erased element is dangling
tickStore(t) ==
    /\ At(t, "store")
    /\ LET r == task[t].r
           k == LKey(task[t].i, task[t].j)
           life == task[t].val - 1
       IN  IF k \in DOMAIN lives_[r]
           THEN /\ lives_' = [lives_ EXCEPT ![r] = Put(lives_[r], k, life)]
                /\ task' = [task EXCEPT ![t].life = life,
                                        ![t].loc = host_num_,
                                        ![t].pc = IF life = 0 THEN "efind"
                                                  ELSE "done"]
                /\ UNCHANGED status
           ELSE /\ UNCHANGED <<lives_, task>>
                /\ status' = [status EXCEPT ![r] = "crashed"]
    /\ UNCHANGED <<tiles_, store>>
    /\ TaskFrame

\* the order of the tileErase calls of tileTick: the host, then the devices
AfterLoc(loc) ==
    IF loc = host_num_ THEN 0 ELSE loc + 1
\* mutant of EraseNext: the loop over the devices is missing
EraseNextHostOnly(loc) == [pc |-> "lerase", loc |-> loc]

EraseNext(loc) ==
    IF num_devices_ = 0 \/ (loc # host_num_ /\ loc + 1 >= num_devices_)
    THEN [pc |-> "lerase", loc |-> loc]
    ELSE [pc |-> "efind", loc |-> AfterLoc(loc)]

\* tileErase: the test tiles_->find(...) != tiles_->end()
eraseFind(t) ==
    /\ At(t, "efind")
    /\ LET r == task[t].r
           k == Key(task[t].i, task[t].j, task[t].loc)
       IN  task' = IF k \in DOMAIN tiles_[r]
                   THEN [task EXCEPT ![t].pc = "edelete"]
                   ELSE [task EXCEPT ![t].pc = EraseNext(task[t].loc).pc,
                                     ![t].loc = EraseNext(task[t].loc).loc]
    /\ UNCHANGED <<tiles_, lives_, status, store>>
    /\ TaskFrame

\* tileErase: delete (*tiles_)[...]
eraseDelete(t) ==
    /\ At(t, "edelete")
    /\ LET r == task[t].r
           k == Key(task[t].i, task[t].j, task[t].loc)
           m == Index(tiles_[r], k)
       IN  /\ tiles_' = [tiles_ EXCEPT ![r] = m]
           /\ store' = IF m[k] = nullptr THEN store
                       ELSE [store EXCEPT ![r][m[k].addr].deleted = @ + 1]
    /\ task' = [task EXCEPT ![t].pc = "eerase"]
    /\ UNCHANGED <<lives_, status>>
    /\ TaskFrame

\* tileErase: tiles_->erase(...)
eraseErase(t) ==
    /\ At(t, "eerase")
    /\ LET r == task[t].r
           k == Key(task[t].i, task[t].j, task[t].loc)
       IN  tiles_' = [tiles_ EXCEPT ![r] = Erase(tiles_[r], k)]
    /\ task' = [task EXCEPT ![t].pc = EraseNext(task[t].loc).pc,
                            ![t].loc = EraseNext(task[t].loc).loc]
    /\ UNCHANGED <<lives_, status, store>>
    /\ TaskFrame

\* lives_->erase({it_+i, jt_+j})
tickEraseLife(t) ==
    /\ At(t, "lerase")
    /\ lives_' = [lives_ EXCEPT ![task[t].r] =
                      Erase(lives_[task[t].r], LKey(task[t].i, task[t].j))]
    /\ task' = [task EXCEPT ![t].pc = "done"]
    /\ UNCHANGED <<tiles_, status, store>>
    /\ TaskFrame

\* ---- tileCopyToDevice(i, j, dst_device) -----------------------------------
callCopyToDevice(r, i, j, dst_device) ==
    /\ status[r] = "ok"
    /\ NewTask("copy_to_device", r, i, j, dst_device, <<>>, "Host", "find")

\* where a task goes when tileCopyToDevice returns: the broadcast goes on
\* with its loop over the devices
CopyReturn(tk) ==
    IF tk.op = "tile_bcast" /\ tk.dev + 1 < num_devices_
    THEN [tk EXCEPT !.dev = @ + 1, !.pc = "find"]
    ELSE [tk EXCEPT !.pc = "done"]

\* the test tiles_->find(...) == tiles_->end()
copyFind(t) ==
    /\ At(t, "find")
    /\ task' = [task EXCEPT ![t] =
                  IF Key(task[t].i, task[t].j, task[t].dev) \in DOMAIN tiles_[task[t].r]
                  THEN CopyReturn(task[t])
                  ELSE [task[t] EXCEPT !.pc = "src"]]
    /\ UNCHANGED <<tiles_, lives_, status, store>>
    /\ TaskFrame

\* src_tile = (*tiles_)[{it_+i, jt_+j, host_num_}]
copySrc(t) ==
    /\ At(t, "src")
    /\ LET r == task[t].r
           k == Key(task[t].i, task[t].j, host_num_)
           m == Index(tiles_[r], k)
       IN  /\ tiles_' = [tiles_ EXCEPT ![r] = m]
           /\ task' = [task EXCEPT ![t].ptr = m[k], ![t].pc = "copy"]
    /\ UNCHANGED <<lives_, status, store>>
    /\ TaskFrame

\* dst_tile = src_tile->copyToDevice(...): a new tile object with the
\* elements of the source; a null or deleted source ends the process
copyAlloc(t) ==
    /\ At(t, "copy")
    /\ LET r == task[t].r
           src == task[t].ptr
       IN  IF src = nullptr \/ store[r][src.addr].deleted > 0
           THEN /\ status' = [status EXCEPT ![r] = "crashed"]
                /\ UNCHANGED <<task, store>>
           ELSE /\ store' = [store EXCEPT ![r] =
                                 (NewTile(store[r]) :>
                                     Object(store[r][src.addr].data, task[t].dev))
                                 @@ store[r]]
                /\ task' = [task EXCEPT ![t].ptr = Ptr(NewTile(store[r])),
                                        ![t].pc = "assign"]
                /\ UNCHANGED status
    /\ UNCHANGED <<tiles_, lives_>>
    /\ TaskFrame

\* (*tiles_)[{it_+i, jt_+j, dst_device}] = dst_tile
copyAssign(t) ==
    /\ At(t, "assign")
    /\ tiles_' = [tiles_ EXCEPT ![task[t].r] =
                      Put(tiles_[task[t].r],
                          Key(task[t].i, task[t].j, task[t].dev), task[t].ptr)]
    /\ task' = [task EXCEPT ![t] = CopyReturn(task[t])]
    /\ UNCHANGED <<lives_, status, store>>
    /\ TaskFrame

\* ---- tileSend<target>(i, j, range) ----------------------------------------
\* issued when no task of the rank is running, and alone until it returns
callTileSend(r, i, j, range, target) ==
    /\ \A t \in DOMAIN task : Done(t)
    /\ NewTask("tile_bcast", r, i, j, 0, range, target,
               IF r \notin tileSendFindRanks(range, {tileRank(i, j)}) THEN "done"
               ELSE IF ~ tileIsLocal(r, i, j) THEN "slot"
               ELSE "send")

\* "If receiving the tile": tile = new ColMajorTile, (*this)(i, j) = tile,
\* (*lives_)[...] = tileSendFindLife(i, j, range)
sendRecvSlot(t) ==
    /\ At(t, "slot")
    /\ LET r == task[t].r
           a == NewTile(store[r])
           life == tileSendFindLife(r, task[t].rg)
       IN  /\ store' = [store EXCEPT ![r] =
                            (a :> Object(Unwritten, host_num_)) @@ store[r]]
           /\ tiles_' = [tiles_ EXCEPT ![r] =
                            Put(tiles_[r], Key(task[t].i, task[t].j, host_num_),
                                Ptr(a))]
           /\ lives_' = [lives_ EXCEPT ![r] =
                            Put(lives_[r], LKey(task[t].i, task[t].j), life)]
           /\ task' = [task EXCEPT ![t].life = life, ![t].pc = "send"]
    /\ UNCHANGED status
    /\ TaskFrame

\* tileSend(i, j, bcast_set) with the other ranks of the set taking part:
\* MPI_Bcast writes the owner's elements into the tile of a receiver
sendBcast(t) ==
    /\ At(t, "send")
    /\ LET r == task[t].r
           k == Key(task[t].i, task[t].j, host_num_)
           m == Index(tiles_[r], k)
           bcast_set == tileSendFindRanks(task[t].rg,
                                          {tileRank(task[t].i, task[t].j)})
           after == IF task[t].target = "Devices" /\ num_devices_ > 0
                    THEN "find" ELSE "done"
       IN  IF Cardinality(bcast_set) = 1
           THEN /\ task' = [task EXCEPT ![t].pc = after]
                /\ UNCHANGED <<tiles_, status, store>>
           ELSE /\ tiles_' = [tiles_ EXCEPT ![r] = m]
                /\ IF m[k] = nullptr
                   THEN /\ status' = [status EXCEPT ![r] = "crashed"]
                        /\ UNCHANGED <<task, store>>
                   ELSE /\ store' = IF tileIsLocal(r, task[t].i, task[t].j)
                                    THEN store
                                    ELSE [store EXCEPT ![r][m[k].addr].data =
                                             Content(it_ + task[t].i,
                                                     jt_ + task[t].j)]
                        /\ task' = [task EXCEPT ![t].pc = after]
                        /\ UNCHANGED status
    /\ UNCHANGED lives_
    /\ TaskFrame

NextTasks ==
    \/ \E r \in Ranks, i \in TaskRows, j \in Cols :
        \/ callTick(r, i, j)
        \/ \E d \in Devices : callCopyToDevice(r, i, j, d)
        \/ \E rg \in TaskRanges, tg \in Targets : callTileSend(r, i, j, rg, tg)
    \/ \E t \in 1 .. MaxWork :
        \/ tickLoad(t)
        \/ tickStore(t)
        \/ eraseFind(t)
        \/ eraseDelete(t)
        \/ eraseErase(t)
        \/ tickEraseLife(t)
        \/ copyFind(t)
        \/ copySrc(t)
        \/ copyAlloc(t)
        \/ copyAssign(t)
        \/ sendRecvSlot(t)
        \/ sendBcast(t)

SpecTasks == InitTasks /\ [][NextTasks]_vars

\* ---- properties of the tasks ----------------------------------------------
\* the rank and the tile the tasks of the behaviour work on
TaskRank == task[1].r
TaskKey(loc) == Key(task[1].i, task[1].j, loc)
AllDone == \A t \in DOMAIN task : Done(t)
\* the keys under which the registry of rank r holds the pointer to a
Owners(r, a) == {k \in DOMAIN tiles_[r] : tiles_[r][k] = Ptr(a)}
\* the tile objects of rank r that have not been deleted
LiveTiles(r) == {a \in DOMAIN store[r] : store[r][a].deleted = 0}

\* C21: L tasks of one rank each issue one tick(i, j) for the same non-local
\* tile, received with life L: in every interleaving, when all L ticks have
\* returned the tile is absent from every location, its counter is removed,
\* and no tile has been destroyed twice.
C21_ConcurrentTicksSafe ==
    \A b \in DOMAIN task :
        (/\ task[b].op = "tile_bcast"
         /\ task[b].life >= 1
         /\ \A t \in DOMAIN task : t > b => task[t].op = "tick"
         /\ Len(task) - b = task[b].life
         /\ AllDone
         /\ status[TaskRank] = "ok")
        => /\ \A loc \in Locs : TaskKey(loc) \notin DOMAIN tiles_[TaskRank]
           /\ LKey(task[1].i, task[1].j) \notin DOMAIN lives_[TaskRank]
           /\ \A a \in DOMAIN store[TaskRank] : store[TaskRank][a].deleted <= 1

\* C22: two tasks of one rank call copy_to_device(i, j, dev) for the same
\* tile concurrently: in every interleaving exactly one device tile is
\* allocated and registered at (it+i, jt+j, dev), and every tile allocated
\* is owned by exactly one registry entry.
C22_ConcurrentCopyRaceFree ==
    (/\ Len(task) = 2
     /\ \A t \in DOMAIN task : task[t].op = "copy_to_device"
     /\ task[1].dev = task[2].dev
     /\ AllDone
     /\ status[TaskRank] = "ok")
    => /\ Cardinality({a \in DOMAIN store[TaskRank] :
                          store[TaskRank][a].loc = task[1].dev}) = 1
       /\ TaskKey(task[1].dev) \in DOMAIN tiles_[TaskRank]
       /\ \A a \in LiveTiles(TaskRank) : Cardinality(Owners(TaskRank, a)) = 1

\* C23: on a non-owner rank of the broadcast set, tile_bcast finds the tile
\* resident at (I, J, host): the entry is reused, no new tile is allocated,
\* and no tile allocated before is left without a registry entry.
C23_RecvSlotReused ==
    \A t \in DOMAIN task :
        (/\ t = Len(task)
         /\ task[t].op = "tile_bcast"
         /\ Done(t)
         /\ task[t].life >= 1
         /\ task[t].was # nullptr
         /\ status[TaskRank] = "ok")
        => /\ tiles_[TaskRank][TaskKey(host_num_)] = task[t].was
           /\ \A a \in DOMAIN store[TaskRank] :
                  store[TaskRank][a].loc = host_num_ => a \in task[t].made
           /\ \A a \in LiveTiles(TaskRank) : Owners(TaskRank, a) # {}

\* ---- consumptions of a received tile --------------------------------------
\* every task began when the tasks before it had returned
Sequential == \A t \in DOMAIN task : task[t].alone
RECURSIVE LifeGiven(_)
\* the consumptions the ranges of the first n calls cover on the rank
LifeGiven(n) ==
    IF n = 0 THEN 0
    ELSE LifeGiven(n - 1)
         + (IF task[n].op = "tile_bcast" THEN task[n].life ELSE 0)
Ticks(a, b) == Cardinality({t \in a .. b : task[t].op = "tick"})
\* the last of the first n calls that is a broadcast received by the rank
LastRecv(n) ==
    LET B == {t \in 1 .. n : task[t].op = "tile_bcast" /\ task[t].life >= 1}
    IN  IF B = {} THEN 0 ELSE CHOOSE t \in B : \A u \in B : u <= t
HostTile(r) ==
    /\ Resident(tiles_[r], TaskKey(host_num_))
    /\ store[r][tiles_[r][TaskKey(host_num_)].addr].deleted = 0
Reclaimed(r) ==
    /\ \A loc \in Locs : TaskKey(loc) \notin DOMAIN tiles_[r]
    /\ LKey(task[1].i, task[1].j) \notin DOMAIN lives_[r]
\* broadcasts and ticks only, one after the other, all returned
OnlyConsumed ==
    /\ task # <<>>
    /\ Sequential
    /\ AllDone
    /\ status[TaskRank] = "ok"
    /\ \A t \in DOMAIN task : task[t].op \in {"tile_bcast", "tick"}

\* C24 (as stated): a rank ticks a received tile once per consumption covered
\* by the range of a broadcast that delivered it; the tile is resident on the
\* host at every one of those consumptions and erased at the tick of the
\* last, also when it is broadcast again before the ticks of the first
\* broadcast are exhausted.
C24_ReclaimedAtLastConsumption ==
    (/\ OnlyConsumed
     /\ \A n \in DOMAIN task : Ticks(1, n) <= LifeGiven(n))
    => /\ Ticks(1, Len(task)) < LifeGiven(Len(task)) => HostTile(TaskRank)
       /\ (Ticks(1, Len(task)) = LifeGiven(Len(task)) /\ LifeGiven(Len(task)) >= 1)
              => Reclaimed(TaskRank)

\* C24 (amended): the consumptions counted are those of the range of the
\* latest broadcast the rank received; with k ticks since that broadcast,
\* of life L, the tile is resident with counter L - k while k < L and is
\* erased everywhere, counter included, at k = L.
C24_ReclaimedAtLastOfLatest ==
    (/\ OnlyConsumed
     /\ \A n \in DOMAIN task :
            task[n].op = "tick" =>
                /\ LastRecv(n) >= 1
                /\ Ticks(LastRecv(n), n) <= task[LastRecv(n)].life)
    => \A b \in {LastRecv(Len(task))} \ {0} :
           LET L == task[b].life
               k == Ticks(b, Len(task))
           IN  /\ k < L =>
                   /\ HostTile(TaskRank)
                   /\ LKey(task[1].i, task[1].j) \in DOMAIN lives_[TaskRank]
                   /\ lives_[TaskRank][LKey(task[1].i, task[1].j)] = L - k
               /\ k = L => Reclaimed(TaskRank)

\* a tile broadcast with life 2, broadcast again to the devices with life 1
\* before any tick, and erased by one tick
C24_Witness ==
    /\ OnlyConsumed
    /\ Len(task) = 3
    /\ task[1].op = "tile_bcast" /\ task[1].life = 2
    /\ task[2].op = "tile_bcast" /\ task[2].life = 1
    /\ task[2].target = "Devices"
    /\ task[3].op = "tick"
    /\ Reclaimed(TaskRank)

\* ---- the device copies of a broadcast --------------------------------------
\* the devices on which registry m has an entry of the tile of the last call
DeviceEntries(m) == Entries(m, last.i, last.j) \cap Devices

\* C26 (as stated): after tile_bcast with target Devices returns on a rank of the
\* broadcast set, the rank's registry holds an entry (I, J, d) for every
\* device d and the host entry; with target Host no device entry is added; a
\* rank outside the set gets no device entry with either target.
C26_DeviceEntriesPerTarget ==
    last.op = "tile_bcast" =>
        \A r \in Ranks :
            status[r] = "ok" =>
                IF r \notin LastBcastSet
                THEN DeviceEntries(tiles_[r]) = DeviceEntries(last.pre[r])
                ELSE IF last.target = "Devices"
                THEN /\ DeviceEntries(tiles_[r]) = Devices
                     /\ LastHost \in DOMAIN tiles_[r]
                ELSE DeviceEntries(tiles_[r]) = DeviceEntries(last.pre[r])

\* C26 (amended): as C26, the host entry being there on a receiving rank
\* always, and on the owner when the owner had the source tile on the host
\* when the call started (an owner that has moved the tile to its devices
\* keeps it there).
C26_DeviceEntriesHostIfSource ==
    last.op = "tile_bcast" =>
        \A r \in Ranks :
            status[r] = "ok" =>
                IF r \notin LastBcastSet
                THEN DeviceEntries(tiles_[r]) = DeviceEntries(last.pre[r])
                ELSE IF last.target = "Devices"
                THEN /\ DeviceEntries(tiles_[r]) = Devices
                     /\ (r # last.r \/ LastHost \in DOMAIN last.pre[r])
                            => LastHost \in DOMAIN tiles_[r]
                ELSE DeviceEntries(tiles_[r]) = DeviceEntries(last.pre[r])

\* a broadcast to the devices that gave a receiving rank, which had no entry
\* of the tile, the host entry and one entry per device
C26_Witness ==
    /\ last.op = "tile_bcast"
    /\ last.target = "Devices"
    /\ num_devices_ >= 2
    /\ \E r \in LastBcastSet :
        /\ r # last.r
        /\ status[r] = "ok"
        /\ Entries(last.pre[r], last.i, last.j) = {}
        /\ Entries(tiles_[r], last.i, last.j) = Locs

\* C30 (as stated): after tile_bcast with target Devices returns on a rank of
\* the set, every device copy (I, J, d) on it holds the contents just
\* broadcast, equal to the host copy, also when a device copy from an
\* earlier broadcast was resident when the call started.
C30_DeviceCopiesFresh ==
    (last.op = "tile_bcast" /\ last.target = "Devices") =>
        \A r \in LastBcastSet :
            status[r] = "ok" =>
                \A d \in Devices :
                    /\ Resident(tiles_[r], Key(last.i, last.j, d))
                    /\ DataAt(tiles_[r], Key(last.i, last.j, d))
                           = DataAt(tiles_[r], LastHost)

\* C30 (amended): after tile_bcast with target Devices returns on a rank of
\* the set, the copy on every device that had no entry of (I, J) when the
\* call started holds the contents just broadcast, equal to the host copy;
\* an entry of (I, J) that a device had when the call started is left as it
\* was.
C30_DeviceCopiesFreshUnlessResident ==
    (last.op = "tile_bcast" /\ last.target = "Devices") =>
        \A r \in LastBcastSet :
            status[r] = "ok" =>
                \A d \in Devices :
                    IF Key(last.i, last.j, d) \in DOMAIN last.pre[r]
                    THEN tiles_[r][Key(last.i, last.j, d)]
                             = last.pre[r][Key(last.i, last.j, d)]
                    ELSE /\ Resident(tiles_[r], Key(last.i, last.j, d))
                         /\ DataAt(tiles_[r], Key(last.i, last.j, d))
                                = DataAt(tiles_[r], LastHost)
                         /\ DataAt(tiles_[r], LastHost)
                                = DataAt(last.pre[last.r], LastHost)

\* a broadcast to the devices that found, on a rank of the set, a device
\* copy with other contents than the ones broadcast, and a device without one
C30_Witness ==
    /\ last.op = "tile_bcast"
    /\ last.target = "Devices"
    /\ \E r \in LastBcastSet, d \in Devices, e \in Devices :
        /\ status[r] = "ok"
        /\ Resident(last.pre[r], Key(last.i, last.j, d))
        /\ DataAt(tiles_[r], Key(last.i, last.j, d)) # DataAt(tiles_[r], LastHost)
        /\ Key(last.i, last.j, e) \notin DOMAIN last.pre[r]
        /\ DataAt(tiles_[r], Key(last.i, last.j, e)) = DataAt(tiles_[r], LastHost)

\* ======================= the collectives of tileSend ======================
\* Every rank runs the same tasks; task t makes the tileSend<Host> calls
\* prog[t] in order.  ctl[r][t] is the position of task t of rank r: k, the
\* call it is at, pc, the statement, and the locals of tileSend(i, j,
\* bcast_set).  MPI matches the MPI_Comm_create_group calls of the members
\* of a group by the group and the tag (always 0) in the order they arrive,
\* and MPI_Bcast calls by the communicator.  MPI_Group_incl, MPI_Comm_rank,
\* MPI_Group_translate_ranks, MPI_Group_free and MPI_Comm_free are local.
\* mpi.eager: whether MPI_Bcast returns on the root before the receivers
\* have arrived (both are allowed to an MPI library).
MaxProg == 2            \* calls in the program of a task
CollTasks == 2          \* tasks per rank

MPI_UNDEFINED == -1
BcastCalls ==
    {[i |-> i, j |-> j, rg |-> rg] : i \in Rows, j \in Cols, rg \in Ranges}
\* the programs: one task making up to MaxProg calls, or CollTasks tasks
\* making one call each
CallSeqs == UNION {[1 .. n -> BcastCalls] : n \in 1 .. MaxProg}
Programs ==
    {<<s>> : s \in CallSeqs}
    \cup {[t \in 1 .. CollTasks |-> <<f[t]>>] : f \in [1 .. CollTasks -> BcastCalls]}

\* mpi_group_: the group of mpi_comm_, position n holding rank n
mpi_group_ == [n \in 1 .. (p * q) |-> n - 1]

RECURSIVE SetToVecDescending(_)
\* mutant of SetToVec: the ranks in descending order
SetToVecDescending(S) ==
    IF S = {} THEN <<>>
    ELSE LET x == CHOOSE x \in S : \A y \in S : x >= y
         IN  <<x>> \o SetToVecDescending(S \ {x})

RECURSIVE SetToVec(_)
\* std::vector<int> bcast_vec(bcast_set.begin(), bcast_set.end()): a
\* std::set is iterated in ascending order
SetToVec(S) ==
    IF S = {} THEN <<>>
    ELSE LET x == CHOOSE x \in S : \A y \in S : x <= y
         IN  <<x>> \o SetToVec(S \ {x})

\* MPI_Group_incl(group, n, ranks, &newgroup): position n of the new group
\* holds the process at position ranks[n] of group
MPI_Group_incl(group, ranks) == [n \in 1 .. Len(ranks) |-> group[ranks[n] + 1]]
\* MPI_Group_translate_ranks(group1, 1, &rank, group2, &out)
MPI_Group_translate_ranks(group1, rank, group2) ==
    LET P == {n \in 1 .. Len(group2) : group2[n] = group1[rank + 1]}
    IN  IF P = {} THEN MPI_UNDEFINED ELSE (CHOOSE n \in P : TRUE) - 1
Members(group) == {group[n] : n \in 1 .. Len(group)}

\* the broadcast set of a call
SetOf(c) == tileSendFindRanks(c.rg, {tileRank(c.i, c.j)})

InitColl ==
    /\ mats = <<>>
    /\ heap = <<>>
    /\ pc = [r \in Ranks |-> [ph |-> "idle", at |-> <<>>, n |-> 0]]
    /\ chan = [r \in Ranks |-> <<>>]
    /\ snap = [r \in Ranks |-> <<>>]
    /\ tpc = <<>>
    /\ slate_mpi = NoTask
    /\ task = <<>>
    /\ store = <<>>
    /\ tiles_ = [r \in Ranks |-> InitTiles(r)]
    /\ lives_ = [r \in Ranks |-> <<>>]
    /\ status = [r \in Ranks |-> "ok"]
    /\ calls = 0
    /\ last = [op |-> "none"]
    /\ since = <<>>
    /\ prog \in Programs
    /\ ctl = [r \in Ranks |-> [t \in 1 .. Len(prog) |->
                [k |-> 1, pc |-> "call", vec |-> <<>>, bcast_group |-> <<>>,
                 bcast_comm |-> 0, bcast_rank |-> MPI_UNDEFINED,
                 bcast_root |-> MPI_UNDEFINED]]]
    /\ mpi \in {[eager |-> e, comms |-> <<>>] : e \in BOOLEAN}
    /\ lock = [r \in Ranks |-> {}]
    /\ eig = <<>>

\* what a step of tileSend leaves alone
CollFrame ==
    UNCHANGED <<calls, last, since, mats, heap, gvars, tvars, task, store, prog,
                eig>>

\* task t of rank r is at statement l of a call
Runs(r, t, l) ==
    /\ t \in DOMAIN prog
    /\ status[r] = "ok"
    /\ ctl[r][t].pc = l
\* mutant of TheCall: rank 1 takes the calls of its program last to first
TheCallReversed(r, t) ==
    prog[t][IF r = 1 THEN Len(prog[t]) + 1 - ctl[r][t].k ELSE ctl[r][t].k]
TheCall(r, t) == prog[t][ctl[r][t].k]
\* "#pragma omp critical(slate_mpi)": no task of the rank is in the section
Free(r) == lock[r] = {}
\* the position of a task that returns from its call
Returned(r, t) ==
    [ctl[r][t] EXCEPT !.k = @ + 1,
                      !.pc = IF ctl[r][t].k + 1 > Len(prog[t]) THEN "done"
                             ELSE "call",
                      !.vec = <<>>, !.bcast_group = <<>>, !.bcast_comm = 0,
                      !.bcast_rank = MPI_UNDEFINED,
                      !.bcast_root = MPI_UNDEFINED]

\* tileSend<Host>(i, j, range) up to the first MPI call of tileSend(i, j,
\* bcast_set): the broadcast set, the receive slot and the life, the test
\* of the set's size and bcast_vec
sendBegin(r, t) ==
    /\ Runs(r, t, "call")
    /\ LET c == TheCall(r, t)
           bcast_set == SetOf(c)
           prep == RecvSlot(r, tiles_[r], lives_[r], c.i, c.j,
                            tileSendFindLife(r, c.rg))
       IN  IF r \notin bcast_set
           THEN /\ ctl' = [ctl EXCEPT ![r][t] = Returned(r, t)]
                /\ UNCHANGED <<tiles_, lives_>>
           ELSE /\ tiles_' = [tiles_ EXCEPT ![r] = prep.t]
                /\ lives_' = [lives_ EXCEPT ![r] = prep.l]
                /\ ctl' = [ctl EXCEPT ![r][t] =
                             IF Cardinality(bcast_set) = 1 THEN Returned(r, t)
                             ELSE [ctl[r][t] EXCEPT !.vec = SetToVec(bcast_set),
                                                    !.pc = "incl"]]
    /\ UNCHANGED <<status, mpi, lock>>
    /\ CollFrame

\* MPI_Group_incl(mpi_group_, bcast_vec.size(), bcast_vec.data(), &bcast_group)
groupIncl(r, t) ==
    /\ Runs(r, t, "incl")
    /\ Free(r)
    /\ ctl' = [ctl EXCEPT ![r][t].bcast_group =
                              MPI_Group_incl(mpi_group_, ctl[r][t].vec),
                          ![r][t].pc = "create"]
    /\ UNCHANGED <<tiles_, lives_, status, mpi, lock>>
    /\ CollFrame

\* the communicators under construction that a call of rank r with this
\* group matches
Matching(r, group) ==
    {n \in DOMAIN mpi.comms :
        /\ mpi.comms[n].group = group
        /\ r \notin DOMAIN mpi.comms[n].member}
\* a communicator of the group with no member yet
NewComm(group) ==
    [group |-> group, member |-> <<>>, inbcast |-> {}, buf |-> <<>>]

\* MPI_Comm_create_group(mpi_comm_, bcast_group, tag, &bcast_comm) is
\* entered: the call joins the oldest matching communicator
commCreateEnter(r, t) ==
    /\ Runs(r, t, "create")
    /\ Free(r)
    /\ lock' = [lock EXCEPT ![r] = {t}]
    /\ LET group == ctl[r][t].bcast_group
           M == Matching(r, group)
           n == IF M = {} THEN Len(mpi.comms) + 1
                ELSE CHOOSE n \in M : \A o \in M : n <= o
           cs == IF M = {} THEN Append(mpi.comms, NewComm(group)) ELSE mpi.comms
           who == [t |-> t, k |-> ctl[r][t].k]
       IN  /\ mpi' = [mpi EXCEPT !.comms =
                         [cs EXCEPT ![n].member = (r :> who) @@ @]]
           /\ ctl' = [ctl EXCEPT ![r][t].bcast_comm = n,
                                 ![r][t].pc = "in_create"]
    /\ UNCHANGED <<tiles_, lives_, status>>
    /\ CollFrame

\* every process of the group has made its call
Created(n) == DOMAIN mpi.comms[n].member = Members(mpi.comms[n].group)

\* MPI_Comm_create_group returns, and the critical section ends
commCreateReturn(r, t) ==
    /\ Runs(r, t, "in_create")
    /\ Created(ctl[r][t].bcast_comm)
    /\ lock' = [lock EXCEPT ![r] = {}]
    /\ ctl' = [ctl EXCEPT ![r][t].pc = "rank"]
    /\ UNCHANGED <<tiles_, lives_, status, mpi>>
    /\ CollFrame

\* MPI_Comm_rank(bcast_comm, &bcast_rank)
commRank(r, t) ==
    /\ Runs(r, t, "rank")
    /\ Free(r)
    /\ ctl' = [ctl EXCEPT ![r][t].bcast_rank =
                              MPI_Group_translate_ranks(mpi_group_, r,
                                  mpi.comms[ctl[r][t].bcast_comm].group),
                          ![r][t].pc = "translate"]
    /\ UNCHANGED <<tiles_, lives_, status, mpi, lock>>
    /\ CollFrame

\* root_rank = tileRank(i, j); MPI_Group_translate_ranks(mpi_group_, 1,
\* &root_rank, bcast_group, &bcast_root)
translateRanks(r, t) ==
    /\ Runs(r, t, "translate")
    /\ Free(r)
    /\ ctl' = [ctl EXCEPT ![r][t].bcast_root =
                              MPI_Group_translate_ranks(mpi_group_,
                                  tileRank(TheCall(r, t).i, TheCall(r, t).j),
                                  ctl[r][t].bcast_group),
                          ![r][t].pc = "bcast"]
    /\ UNCHANGED <<tiles_, lives_, status, mpi, lock>>
    /\ CollFrame

\* tile = (*this)(i, j), tile->mb_ * tile->nb_, and MPI_Bcast(tile->data_,
\* count, MPI_DOUBLE, bcast_root, bcast_comm) is entered; a root hands its
\* elements to MPI
bcastEnter(r, t) ==
    /\ Runs(r, t, "bcast")
    /\ Free(r)
    /\ LET k == Key(TheCall(r, t).i, TheCall(r, t).j, host_num_)
           m == Index(tiles_[r], k)
           n == ctl[r][t].bcast_comm
       IN  /\ tiles_' = [tiles_ EXCEPT ![r] = m]
           /\ IF m[k] = nullptr
              THEN /\ status' = [status EXCEPT ![r] = "crashed"]
                   /\ UNCHANGED <<ctl, mpi, lock>>
              ELSE /\ lock' = [lock EXCEPT ![r] = {t}]
                   /\ mpi' = [mpi EXCEPT
                                !.comms[n].inbcast = @ \cup {r},
                                !.comms[n].buf =
                                    IF ctl[r][t].bcast_rank = ctl[r][t].bcast_root
                                    THEN (r :> m[k].data) @@ @ ELSE @]
                   /\ ctl' = [ctl EXCEPT ![r][t].pc = "in_bcast"]
                   /\ UNCHANGED status
    /\ UNCHANGED lives_
    /\ CollFrame

\* the rank at position bcast_root of the communicator
RootOf(r, t) ==
    mpi.comms[ctl[r][t].bcast_comm].group[ctl[r][t].bcast_root + 1]
IsRoot(r, t) == ctl[r][t].bcast_rank = ctl[r][t].bcast_root
\* the ranks a task inside MPI_Bcast still waits for
BcastWaits(r, t) ==
    LET c == mpi.comms[ctl[r][t].bcast_comm]
    IN  IF IsRoot(r, t)
        THEN (IF mpi.eager THEN {} ELSE Members(c.group) \ c.inbcast)
        ELSE (IF RootOf(r, t) \in DOMAIN c.buf THEN {} ELSE {RootOf(r, t)})

\* MPI_Bcast returns, a receiver with the root's elements in its tile, and
\* the critical section ends
bcastReturn(r, t) ==
    /\ Runs(r, t, "in_bcast")
    /\ BcastWaits(r, t) = {}
    /\ tiles_' = [tiles_ EXCEPT ![r] =
                     IF IsRoot(r, t) THEN @
                     ELSE Put(@, Key(TheCall(r, t).i, TheCall(r, t).j, host_num_),
                              Tile(mpi.comms[ctl[r][t].bcast_comm].buf[RootOf(r, t)]))]
    /\ lock' = [lock EXCEPT ![r] = {}]
    /\ ctl' = [ctl EXCEPT ![r][t].pc = "gfree"]
    /\ UNCHANGED <<lives_, status, mpi>>
    /\ CollFrame

\* MPI_Group_free(&bcast_group)
groupFree(r, t) ==
    /\ Runs(r, t, "gfree")
    /\ Free(r)
    /\ ctl' = [ctl EXCEPT ![r][t].bcast_group = <<>>, ![r][t].pc = "cfree"]
    /\ UNCHANGED <<tiles_, lives_, status, mpi, lock>>
    /\ CollFrame

\* MPI_Comm_free(&bcast_comm), and tileSend returns
commFree(r, t) ==
    /\ Runs(r, t, "cfree")
    /\ Free(r)
    /\ ctl' = [ctl EXCEPT ![r][t] = Returned(r, t)]
    /\ UNCHANGED <<tiles_, lives_, status, mpi, lock>>
    /\ CollFrame

NextColl ==
    \E r \in Ranks, t \in 1 .. CollTasks :
        \/ sendBegin(r, t)
        \/ groupIncl(r, t)
        \/ commCreateEnter(r, t)
        \/ commCreateReturn(r, t)
        \/ commRank(r, t)
        \/ translateRanks(r, t)
        \/ bcastEnter(r, t)
        \/ bcastReturn(r, t)
        \/ groupFree(r, t)
        \/ commFree(r, t)

\* the threads of every rank keep running
SpecColl == InitColl /\ [][NextColl]_vars /\ WF_vars(NextColl)

\* ---------------- the collectives of tileSend: properties ----------------
InMPI == {"incl", "create", "in_create", "rank", "translate", "bcast",
          "in_bcast", "gfree", "cfree"}
\* the sequence g holds exactly the ranks of S, in ascending order
AscendingOf(g, S) ==
    /\ Len(g) = Cardinality(S)
    /\ Members(g) = S
    /\ \A a, b \in 1 .. Len(g) : a < b => g[a] < g[b]

\* the group, the communicator and the root of the calls that are in their
\* MPI statements
GroupAndRoot ==
    \A r \in Ranks : \A t \in DOMAIN prog :
        LET x == ctl[r][t]
            c == prog[t][x.k]
            S == SetOf(c)
        IN  x.pc \in InMPI =>
              /\ Cardinality(S) > 1
              /\ r \in S
              /\ x.pc \in {"create", "in_create", "rank", "translate",
                           "bcast", "in_bcast"}
                   => AscendingOf(x.bcast_group, S)
              /\ x.pc \in InMPI \ {"incl", "create"}
                   => AscendingOf(mpi.comms[x.bcast_comm].group, S)
              /\ x.pc \in {"bcast", "in_bcast", "gfree", "cfree"}
                   => /\ x.bcast_root \in 0 .. Cardinality(S) - 1
                      /\ mpi.comms[x.bcast_comm].group[x.bcast_root + 1]
                             = tileRank(c.i, c.j)
\* a receiver's MPI_Bcast returns with the owner's elements in its tile
FromOwner ==
    \A r \in Ranks : \A t \in DOMAIN prog :
        LET x == ctl[r][t]
            c == prog[t][x.k]
            k == Key(c.i, c.j, host_num_)
        IN  (x.pc = "in_bcast" /\ ctl'[r][t].pc = "gfree")
               => tiles_'[r][k].data = InitTiles(tileRank(c.i, c.j))[k].data

\* C25: a tileSend call reaches its MPI calls only when its broadcast set
\* has more than one member; the group it builds and the communicator it
\* gets hold exactly the ranks of the set in ascending order; the root it
\* passes to MPI_Bcast is the position of tileRank(i, j) in that order, and
\* a receiver's MPI_Bcast returns with the owner's elements in its tile.
C25_GroupIsSetRootIsOwner == [](GroupAndRoot) /\ [][FromOwner]_vars

\* some receiver's MPI_Bcast returned, and some call with the owner alone in
\* its set returned with no communicator made for it
C25_Witness ==
    /\ \E r \in Ranks : \E t \in DOMAIN prog :
          /\ ctl[r][t].pc = "gfree"
          /\ ctl[r][t].bcast_rank # ctl[r][t].bcast_root
    /\ \E t \in DOMAIN prog :
          /\ Cardinality(SetOf(prog[t][1])) = 1
          /\ \A r \in Ranks : ctl[r][t].k > 1

\* one control flow per rank
SingleFlow == Len(prog) = 1
\* every call of every task has returned on every rank
AllReturned == \A r \in Ranks : \A t \in DOMAIN prog : ctl[r][t].pc = "done"
\* the members of every communicator are in the same call of the same task
OwnComm ==
    \A n \in DOMAIN mpi.comms :
        \A a, b \in DOMAIN mpi.comms[n].member :
            mpi.comms[n].member[a] = mpi.comms[n].member[b]

\* the programs of one control flow per rank
InitFlow == InitColl /\ SingleFlow
SpecFlow == InitFlow /\ [][NextColl]_vars /\ WF_vars(NextColl)

\* C27: when every rank makes the same tileSend calls in the same order
\* from one control flow, every call returns on every rank, and the ranks
\* that meet in a communicator are always in the same call.
C27_SingleFlowReturns == SingleFlow => (<>AllReturned /\ []OwnComm)

\* a program of two multi-member broadcasts has returned on every rank,
\* one communicator made for each
C27_Witness ==
    /\ SingleFlow
    /\ Len(prog[1]) = 2
    /\ AllReturned
    /\ Len(mpi.comms) = 2

\* the ranks a task that is inside a blocking collective, holding its
\* rank's critical section, still waits for
Waits(r, t) ==
    IF status[r] # "ok" THEN {}
    ELSE IF ctl[r][t].pc = "in_create"
         THEN Members(mpi.comms[ctl[r][t].bcast_comm].group)
                  \ DOMAIN mpi.comms[ctl[r][t].bcast_comm].member
    ELSE IF ctl[r][t].pc = "in_bcast" THEN BcastWaits(r, t)
    ELSE {}
\* two tasks per rank, broadcasting two different tiles to overlapping sets
TwoOverlapping ==
    /\ Len(prog) = 2
    /\ <<prog[1][1].i, prog[1][1].j>> # <<prog[2][1].i, prog[2][1].j>>
    /\ SetOf(prog[1][1]) \cap SetOf(prog[2][1]) # {}
\* rank a waits inside one collective for rank b while rank b waits inside
\* another collective for rank a
CrossWait ==
    \E a, b \in Ranks : \E ta, tb \in DOMAIN prog :
        /\ a # b
        /\ b \in Waits(a, ta)
        /\ a \in Waits(b, tb)
        /\ ctl[a][ta].bcast_comm # ctl[b][tb].bcast_comm

\* C28: with two tasks per rank broadcasting two different tiles to
\* overlapping sets, no two ranks ever wait for each other inside two
\* different collectives while holding their critical sections.
C28_NoCrossWait == TwoOverlapping => ~CrossWait

\* ======================= gather with synchronous sends ====================
\* The ranks run gather() on a matrix of mt_ x nt_ tiles, mats[1], with an
\* MPI whose MPI_Send returns only when the matching MPI_Recv has taken the
\* message.  pc[r].ph is "call", "send" (inside MPI_Send), "wait" (rank 0
\* inside MPI_Recv) or "idle"; chan[r] holds the message rank r is sending.
SyncMT == 4             \* tile rows of the gathered matrix, at most
SyncNT == 2             \* tile columns of the gathered matrix, at most

RECURSIVE GatherLoopOffDiagonal(_, _, _, _, _)
\* mutant of GatherLoop: the other ranks skip the tiles of the diagonal
GatherLoopOffDiagonal(mt, nt, r, i, j) ==
    IF i >= mt THEN <<>>
    ELSE IF ~ (j <= i /\ j < nt) THEN GatherLoopOffDiagonal(mt, nt, r, i + 1, 0)
    ELSE IF r = 0
    THEN (IF ~ tileIsLocal(r, i, j) THEN <<i, j>>
          ELSE GatherLoopOffDiagonal(mt, nt, r, i, j + 1))
    ELSE (IF tileIsLocal(r, i, j) /\ j < i THEN <<i, j>>
          ELSE GatherLoopOffDiagonal(mt, nt, r, i, j + 1))

RECURSIVE GatherLoop(_, _, _, _, _)
\* the loops of gather() over mt x nt tiles on rank r from iteration (i, j)
\* on: the next tile for which r calls tileRecv (rank 0) or tileSend (the
\* others), <<>> if none
GatherLoop(mt, nt, r, i, j) ==
    IF i >= mt THEN <<>>
    ELSE IF ~ (j <= i /\ j < nt) THEN GatherLoop(mt, nt, r, i + 1, 0)
    ELSE IF r = 0
    THEN (IF ~ tileIsLocal(r, i, j) THEN <<i, j>>
          ELSE GatherLoop(mt, nt, r, i, j + 1))
    ELSE (IF tileIsLocal(r, i, j) THEN <<i, j>>
          ELSE GatherLoop(mt, nt, r, i, j + 1))

\* the next call of rank r in gather() on mats[1]
SyncFrom(r, i, j) == GatherLoop(mats[1].mt_, mats[1].nt_, r, i, j)
\* the tiles copyTo() gives rank r: the local (i, j) with j <= i
SyncTiles(mt, r) ==
    [k \in {Key(c[1], c[2], host_num_) :
              c \in {c \in (0 .. (mt - 1)) \X (0 .. (mt - 1)) :
                        c[2] <= c[1] /\ tileIsLocal(r, c[1], c[2])}} |->
        Tile(Content(k[1], k[2]))]

InitSync ==
    /\ \E mt \in 1 .. SyncMT : \E nt \in 1 .. SyncNT :
          /\ mats = <<[mt_ |-> mt, nt_ |-> nt]>>
          /\ tiles_ = [r \in Ranks |-> SyncTiles(mt, r)]
    /\ heap = <<>>
    /\ pc = [r \in Ranks |-> [ph |-> "idle", at |-> <<>>, n |-> 0]]
    /\ chan = [r \in Ranks |-> <<>>]
    /\ snap = [r \in Ranks |-> <<>>]
    /\ tpc = <<>>
    /\ slate_mpi = NoTask
    /\ task = <<>>
    /\ store = <<>>
    /\ prog = <<>>
    /\ ctl = <<>>
    /\ mpi = <<>>
    /\ lock = <<>>
    /\ eig = <<>>
    /\ lives_ = [r \in Ranks |-> <<>>]
    /\ status = [r \in Ranks |-> "ok"]
    /\ calls = 0
    /\ last = [op |-> "none"]
    /\ since = <<>>

SyncFrame ==
    UNCHANGED <<lives_, calls, since, snap, mats, heap, tvars, kvars>>

\* gather() is called on rank r
gatherSync(r) ==
    /\ status[r] = "ok"
    /\ pc[r].ph = "idle"
    /\ pc[r].n < MaxGathers
    /\ pc' = [pc EXCEPT ![r] = GatherAt(SyncFrom(r, 0, 0), pc[r].n + 1)]
    /\ last' = [op |-> "gather", r |-> r]
    /\ UNCHANGED <<tiles_, status, chan>>
    /\ SyncFrame

\* tileSend(i, j, dest = 0) on rank r # 0 up to MPI_Send: the host pointer is
\* looked up and dereferenced, and MPI_Send is entered
tileSendSync(r) ==
    /\ r # 0
    /\ status[r] = "ok"
    /\ pc[r].ph = "call"
    /\ LET i == pc[r].at[1]
           j == pc[r].at[2]
           m1 == Index(tiles_[r], Key(i, j, host_num_))
           tile == m1[Key(i, j, host_num_)]
       IN  /\ tiles_' = [tiles_ EXCEPT ![r] = m1]
           /\ IF tile = nullptr
              THEN /\ status' = [status EXCEPT ![r] = "crashed"]
                   /\ UNCHANGED <<pc, chan>>
              ELSE /\ chan' = [chan EXCEPT ![r] = <<tile.data>>]
                   /\ pc' = [pc EXCEPT ![r].ph = "send"]
                   /\ UNCHANGED status
           /\ last' = [op |-> "send", r |-> r, i |-> i, j |-> j]
    /\ SyncFrame

\* MPI_Send returns on rank r: its message has been taken
tileSendReturn(r) ==
    /\ pc[r].ph = "send"
    /\ chan[r] = <<>>
    /\ pc' = [pc EXCEPT ![r] =
                 GatherAt(SyncFrom(r, pc[r].at[1], pc[r].at[2] + 1), pc[r].n)]
    /\ last' = [op |-> "send_done", r |-> r, i |-> pc[r].at[1], j |-> pc[r].at[2]]
    /\ UNCHANGED <<tiles_, status, chan>>
    /\ SyncFrame

\* tileRecv(i, j, src) is called on rank 0: a new tile is stored in the host
\* slot and MPI_Recv is entered
tileRecvSync ==
    /\ status[0] = "ok"
    /\ pc[0].ph = "call"
    /\ tiles_' = [tiles_ EXCEPT ![0] =
                     tileRecvSlot(tiles_[0], pc[0].at[1], pc[0].at[2])]
    /\ pc' = [pc EXCEPT ![0].ph = "wait"]
    /\ last' = [op |-> "recv", r |-> 0, i |-> pc[0].at[1], j |-> pc[0].at[2]]
    /\ UNCHANGED <<status, chan>>
    /\ SyncFrame

\* MPI_Recv on rank 0 takes the message rank src = tileRank(i, j) is sending
tileRecvSyncReturn ==
    /\ pc[0].ph = "wait"
    /\ LET i == pc[0].at[1]
           j == pc[0].at[2]
           src == tileRank(i, j)
       IN  /\ chan[src] # <<>>
           /\ tiles_' = [tiles_ EXCEPT ![0] =
                            tileRecvDone(tiles_[0], i, j, Head(chan[src]))]
           /\ chan' = [chan EXCEPT ![src] = <<>>]
           /\ pc' = [pc EXCEPT ![0] = GatherAt(SyncFrom(0, i, j + 1), pc[0].n)]
           /\ last' = [op |-> "recv_done", r |-> 0, i |-> i, j |-> j]
    /\ UNCHANGED status
    /\ SyncFrame

NextSync ==
    \/ \E r \in Ranks : gatherSync(r)
    \/ \E r \in Ranks : tileSendSync(r)
    \/ \E r \in Ranks : tileSendReturn(r)
    \/ tileRecvSync
    \/ tileRecvSyncReturn

\* every rank keeps running
SpecSync == InitSync /\ [][NextSync]_vars /\ WF_vars(NextSync)

\* every host tile of rank 0 holds nothing yet or the elements of the block
\* of its own coordinates
SlotsMatch ==
    \A k \in DOMAIN tiles_[0] :
        (k[3] = host_num_ /\ tiles_[0][k] # nullptr) =>
            tiles_[0][k].data \in {Unwritten, Content(k[1], k[2])}
\* every rank has returned from all its gathers, and rank 0 holds the lower
\* triangle
AllGathered ==
    /\ \A r \in Ranks : pc[r].ph = "idle" /\ pc[r].n = MaxGathers
    /\ \A i \in 0 .. (mats[1].mt_ - 1) : \A j \in 0 .. (mats[1].nt_ - 1) :
          j <= i => DataAt(tiles_[0], Key(i, j, host_num_)) = Content(i, j)

\* C29: with synchronous sends, every message of gather() is received into
\* the slot of the tile it was sent from, and every rank returns from
\* gather() with the lower triangle on rank 0.
C29_SyncGatherTerminates == []SlotsMatch /\ <>AllGathered

\* rank 0 has received, in order, the four tiles rank 1 sends of a 4 x 2
\* matrix, and every rank has returned
C29_Witness ==
    /\ mats[1].mt_ = 4 /\ mats[1].nt_ = 2
    /\ AllGathered
    /\ last.op = "send_done" /\ last.r = 1 /\ last.i = 3 /\ last.j = 1

\* ======================= heev ==============================================
\* Every rank of A's communicator calls heev(A, Lambda, Z, opts) with the
\* same A, Z and opts.  eig holds the arguments (n = A.n(), the process grid
\* of A, wantz = Z.mt() > 0, method, Anorm = the max-norm of A, size0 = the
\* length of Lambda on entry), the build (eager: MPI_Bcast returns on the
\* root before the receivers arrive; checked: operator[] of an empty vector
\* aborts), and for every rank at (its position), Lambda, E, log (the
\* broadcasts it entered) and ran (the stages it ran); bc is the sequence of
\* broadcasts on A.mpiComm(), matched in the order each rank enters them.
\* The elements of Lambda and E are named by where they come from.
HeevP == 2              \* rows and columns of the process grid, at most
MaxN == 2               \* order of A, at most

Norms == {"nan", "inf", "small", "one", "big"}
Methods == {"QR", "DC"}
HeevRanks == 0 .. (HeevP * HeevP - 1)
HRanks == DOMAIN eig.at

\* n copies of v
Fill(n, v) == [k \in 1 .. n |-> v]
\* std::vector::resize(n): the first n elements, new ones value-initialised
Resize(v, n) == [k \in 1 .. n |-> IF k <= Len(v) THEN v[k] ELSE "zero"]
\* v.assign(v.size(), x): as many copies of x as v has elements
Assign(v, x) == Fill(Len(v), x)
\* std::isnan(Anorm) || std::isinf(Anorm)
NonFinite(a) == a \in {"nan", "inf"}
\* alpha != 1.0: Anorm > 0 && Anorm < sqrt_sml, or Anorm > sqrt_big
Scaled(a) == a \in {"small", "big"}

InitHeev ==
    /\ mats = <<>>
    /\ heap = <<>>
    /\ pc = [r \in Ranks |-> [ph |-> "idle", at |-> <<>>, n |-> 0]]
    /\ chan = [r \in Ranks |-> <<>>]
    /\ snap = [r \in Ranks |-> <<>>]
    /\ tpc = <<>>
    /\ slate_mpi = NoTask
    /\ task = <<>>
    /\ store = <<>>
    /\ prog = <<>>
    /\ ctl = <<>>
    /\ mpi = <<>>
    /\ lock = <<>>
    /\ tiles_ = [r \in Ranks |-> <<>>]
    /\ lives_ = [r \in Ranks |-> <<>>]
    /\ status = [r \in Ranks |-> "ok"]
    /\ calls = 0
    /\ last = [op |-> "none"]
    /\ since = <<>>
    /\ \E n \in 1 .. MaxN, nprow \in 1 .. HeevP, npcol \in 1 .. HeevP,
          wantz \in BOOLEAN, method \in Methods, Anorm \in Norms,
          size0 \in 0 .. MaxN, eager \in BOOLEAN, checked \in BOOLEAN :
          eig = [n |-> n, nprow |-> nprow, npcol |-> npcol, wantz |-> wantz,
                 method |-> method, Anorm |-> Anorm, size0 |-> size0,
                 eager |-> eager, checked |-> checked,
                 at |-> [r \in 0 .. (nprow * npcol - 1) |-> "start"],
                 Lambda |-> [r \in 0 .. (nprow * npcol - 1) |-> Fill(size0, "in")],
                 E |-> [r \in 0 .. (nprow * npcol - 1) |-> <<>>],
                 log |-> [r \in 0 .. (nprow * npcol - 1) |-> <<>>],
                 ran |-> [r \in 0 .. (nprow * npcol - 1) |-> <<>>],
                 bc |-> <<>>]

HeevFrame ==
    UNCHANGED <<tiles_, lives_, status, calls, last, since, mats, heap, gvars,
                tvars, task, store, prog, ctl, mpi, lock>>

\* rank r is at statement l of heev
HeevAt(r, l) == r \in HRanks /\ eig.at[r] = l

\* the rank after scale, he2hb, the gather of the band, Lambda.resize(n) and
\* E(n - 1)
Reduced(r) ==
    [eig EXCEPT
       !.ran[r] = @ \o (IF Scaled(eig.Anorm) THEN <<"scale">> ELSE <<>>)
                    \o <<"he2hb", "he2hbGather">>,
       !.Lambda[r] = Resize(@, eig.n),
       !.E[r] = Fill(eig.n - 1, "zero"),
       !.at[r] = "hb2st"]

\* from the entry of heev to the band stage: slate_assert(nprow == npcol)
\* fails, or the norm is not finite (Lambda.assign and return), or the rank
\* reduces A to band form and sizes Lambda and E
heevReduce(r) ==
    /\ HeevAt(r, "start")
    /\ eig' = IF eig.nprow # eig.npcol
              THEN [eig EXCEPT !.at[r] = "crashed"]
              ELSE IF NonFinite(eig.Anorm)
              THEN [eig EXCEPT !.Lambda[r] = Assign(@, eig.Anorm),
                               !.at[r] = "returned"]
              ELSE Reduced(r)
    /\ HeevFrame

\* mutant of AfterBand: only rank 0 takes part in the broadcasts
AfterBandRootOnly(r) ==
    IF r = 0 THEN (IF eig.wantz THEN "bcast_Lambda" ELSE "sterf")
    ELSE IF eig.wantz THEN "stev" ELSE "rescale"

\* where a rank goes after the band stage
AfterBand(r) ==
    IF eig.wantz THEN "bcast_Lambda"
    ELSE IF r = 0 THEN "sterf" ELSE "bcast_Lambda"

\* if (A.mpiRank() == 0): hb2st and copyhb2st; the other ranks go past
heevBand(r) ==
    /\ HeevAt(r, "hb2st")
    /\ eig' = IF r = 0
              THEN [eig EXCEPT !.ran[r] = @ \o <<"hb2st">>,
                               !.Lambda[r] = Fill(eig.n, "diag"),
                               !.E[r] = Fill(eig.n - 1, "offdiag"),
                               !.at[r] = AfterBand(r)]
              ELSE [eig EXCEPT !.at[r] = AfterBand(r)]
    /\ HeevFrame

\* eigenvalues only: sterf on rank 0
heevSterf(r) ==
    /\ HeevAt(r, "sterf")
    /\ eig' = [eig EXCEPT !.ran[r] = @ \o <<"sterf">>,
                          !.Lambda[r] = Fill(eig.n, "eigenvalue"),
                          !.at[r] = "bcast_Lambda"]
    /\ HeevFrame

\* MPI_Bcast(&buf[0], count, mpi_real_type, 0, A.mpiComm()) is entered by
\* rank r: its k-th broadcast on the communicator is the k-th of the others
BcastEntered(r, name, buf, count) ==
    LET k == Len(eig.log[r]) + 1
        b0 == IF k <= Len(eig.bc) THEN eig.bc[k]
              ELSE [arrived |-> {}, sent |-> FALSE, data |-> <<>>]
        b1 == [arrived |-> b0.arrived \cup {r},
               sent |-> b0.sent \/ r = 0,
               data |-> IF r = 0 THEN [x \in 1 .. count |-> buf[x]] ELSE b0.data]
    IN  [eig EXCEPT
           !.log[r] = Append(@, [buf |-> name, count |-> count, root |-> 0]),
           !.bc = IF k <= Len(eig.bc) THEN [@ EXCEPT ![k] = b1] ELSE Append(@, b1)]

\* the broadcast rank r is in has finished for r
BcastDone(r) ==
    LET b == eig.bc[Len(eig.log[r])]
    IN  IF r = 0 THEN eig.eager \/ b.arrived = HRanks ELSE b.sent
\* the buffer of rank r after its broadcast
Received(r, buf) ==
    LET b == eig.bc[Len(eig.log[r])]
    IN  IF r = 0 THEN buf
        ELSE [x \in 1 .. Len(buf) |-> IF x <= Len(b.data) THEN b.data[x] ELSE buf[x]]

\* MPI_Bcast(&Lambda[0], n, ...): line 999 with eigenvectors, line 1048
\* without
heevBcastLambda(r) ==
    /\ HeevAt(r, "bcast_Lambda")
    /\ eig' = [BcastEntered(r, "Lambda", eig.Lambda[r], eig.n)
                 EXCEPT !.at[r] = "in_Lambda"]
    /\ HeevFrame

\* where a rank goes when the broadcast of Lambda has returned
AfterLambda == IF eig.wantz THEN "bcast_E" ELSE "rescale"

heevBcastLambdaReturn(r) ==
    /\ HeevAt(r, "in_Lambda")
    /\ BcastDone(r)
    /\ eig' = [eig EXCEPT !.Lambda[r] = Received(r, @), !.at[r] = AfterLambda]
    /\ HeevFrame

\* MPI_Bcast(&E[0], n - 1, ...): E[0] of an empty E aborts in a checked build
heevBcastE(r) ==
    /\ HeevAt(r, "bcast_E")
    /\ eig' = IF eig.n - 1 = 0 /\ eig.checked
              THEN [eig EXCEPT !.at[r] = "crashed"]
              ELSE [BcastEntered(r, "E", eig.E[r], eig.n - 1)
                      EXCEPT !.at[r] = "in_E"]
    /\ HeevFrame

heevBcastEReturn(r) ==
    /\ HeevAt(r, "in_E")
    /\ BcastDone(r)
    /\ eig' = [eig EXCEPT !.E[r] = Received(r, @), !.at[r] = "stev"]
    /\ HeevFrame

\* steqr or stedc on every rank, and the back-transformation
heevSolve(r) ==
    /\ HeevAt(r, "stev")
    /\ eig' = [eig EXCEPT
                 !.ran[r] = @ \o <<IF eig.method = "QR" THEN "steqr" ELSE "stedc",
                                   "unmtr_hb2st", "unmtr_he2hb">>,
                 !.Lambda[r] = Fill(eig.n, "eigenvalue"),
                 !.at[r] = "rescale"]
    /\ HeevFrame

\* if (alpha != 1.0) blas::scal(n, Anorm/alpha, &Lambda[0], 1), and return
heevRescale(r) ==
    /\ HeevAt(r, "rescale")
    /\ eig' = [eig EXCEPT
                 !.Lambda[r] = IF Scaled(eig.Anorm)
                               THEN [x \in 1 .. Len(@) |-> <<"rescaled", @[x]>>]
                               ELSE @,
                 !.at[r] = "returned"]
    /\ HeevFrame

NextHeev ==
    \E r \in HeevRanks :
        \/ heevReduce(r)
        \/ heevBand(r)
        \/ heevSterf(r)
        \/ heevBcastLambda(r)
        \/ heevBcastLambdaReturn(r)
        \/ heevBcastE(r)
        \/ heevBcastEReturn(r)
        \/ heevSolve(r)
        \/ heevRescale(r)

\* every rank keeps running
SpecHeev == InitHeev /\ [][NextHeev]_vars /\ WF_vars(NextHeev)

\* ---- properties of heev ---------------------------------------------------
\* the broadcasts of a call: Lambda then E with eigenvectors, Lambda alone
\* without, all rooted at rank 0
Expected ==
    IF eig.wantz
    THEN <<[buf |-> "Lambda", count |-> eig.n, root |-> 0],
           [buf |-> "E", count |-> eig.n - 1, root |-> 0]>>
    ELSE <<[buf |-> "Lambda", count |-> eig.n, root |-> 0]>>
IsPrefix(a, b) == Len(a) <= Len(b) /\ \A k \in 1 .. Len(a) : a[k] = b[k]
Has(seq, x) == \E k \in 1 .. Len(seq) : seq[k] = x
Solved(r) == Has(eig.ran[r], "steqr") \/ Has(eig.ran[r], "stedc")

\* the broadcasts every rank has entered are the first of the call's
Matched == \A r \in HRanks : IsPrefix(eig.log[r], Expected)
\* with eigenvectors, the solver has run on a rank only after that rank and
\* rank 0 have entered both broadcasts
BcastsBeforeSolver ==
    \A r \in HRanks :
        Solved(r) => eig.wantz /\ eig.log[r] = Expected /\ eig.log[0] = Expected
\* without eigenvectors, hb2st and sterf run on rank 0 alone, before rank 0
\* enters the broadcast and before the broadcast returns on any rank
RootAlone ==
    ~ eig.wantz =>
        /\ \A r \in HRanks \ {0} :
              ~ Has(eig.ran[r], "hb2st") /\ ~ Has(eig.ran[r], "sterf")
        /\ \A r \in HRanks :
              (eig.log[0] # <<>>
                 \/ (eig.log[r] # <<>> /\ eig.at[r] \in {"rescale", "returned"})) =>
                  Has(eig.ran[0], "hb2st") /\ Has(eig.ran[0], "sterf")
\* a rank that has returned has entered every broadcast any rank has entered
NoneSkipped ==
    \A r \in HRanks :
        eig.at[r] = "returned" =>
            /\ \A o \in HRanks : IsPrefix(eig.log[o], eig.log[r])
            /\ eig.log[r] = (IF NonFinite(eig.Anorm) THEN <<>> ELSE Expected)
\* every rank has left heev
AllLeft == \A r \in HRanks : eig.at[r] \in {"returned", "crashed"}

\* C31: the broadcasts every rank enters are, in order, those of the call's
\* mode, rooted at rank 0: Lambda (n values) then E (n - 1 values) with
\* eigenvectors, entered before the solver runs; Lambda alone without,
\* after rank 0 alone has run hb2st and sterf; a rank that returns has
\* entered every broadcast another rank enters, and every rank leaves heev.
C31_HeevCollectivesMatch ==
    /\ [](Matched /\ BcastsBeforeSolver /\ RootAlone /\ NoneSkipped)
    /\ <>AllLeft

\* both modes have been seen to the end on four ranks: here eigenvectors,
\* every rank returned after both broadcasts
C31_Witness ==
    /\ eig.wantz
    /\ Cardinality(HRanks) = 4
    /\ \A r \in HRanks : eig.at[r] = "returned" /\ eig.log[r] = Expected
                            /\ Solved(r)

\* C32 (as stated): a rank that returns from heev with a max-norm that is
\* NaN or infinite has run no reduction, gather or solver and entered no
\* broadcast, and its Lambda has n entries, each equal to the norm.
C32_NonFiniteNormFillsN ==
    \A r \in HRanks :
        (eig.at[r] = "returned" /\ NonFinite(eig.Anorm)) =>
            /\ eig.ran[r] = <<>>
            /\ eig.log[r] = <<>>
            /\ eig.Lambda[r] = Fill(eig.n, eig.Anorm)
====
